---- MODULE Spec2Model ----
(***************************************************************************)
(* Bulk import of a spreadsheet into the rankings store                    *)
(* (components/BulkImportModal.tsx) and the store it writes to.            *)
(*                                                                         *)
(* Strings are TLA+ strings.  The Chinese header spellings of              *)
(* ESSENTIAL_MAP are written in pinyin, because the module text is ASCII:  *)
(* paiming, cheshou, cheshouxingming, cheshouID, xingming, jifen.          *)
(***************************************************************************)
EXTENDS Integers, Sequences, FiniteSets, TLC

\* ------------------------------------------------------------------------
\* Bounds of the model
\* ------------------------------------------------------------------------
\* widest header row / most data rows of the generated sheets
MaxCols == 3
MaxRows == 3

\* ------------------------------------------------------------------------
\* Cell values as the spreadsheet decoder hands them over (raw values):
\* a number, a string, or no cell at all (a hole of the sparse row array).
\* ------------------------------------------------------------------------
Num(n) == [t |-> "num", n |-> n, s |-> ""]
Str(s) == [t |-> "str", n |-> 0, s |-> s]
Hole == [t |-> "empty", n |-> 0, s |-> ""]

\* ------------------------------------------------------------------------
\* JavaScript primitives used by the component
\* ------------------------------------------------------------------------
RECURSIVE TrimStart(_)
TrimStart(s) ==
    IF Len(s) > 0 /\ SubSeq(s, 1, 1) = " " THEN TrimStart(SubSeq(s, 2, Len(s))) ELSE s

RECURSIVE TrimEnd(_)
TrimEnd(s) ==
    IF Len(s) > 0 /\ SubSeq(s, Len(s), Len(s)) = " "
    THEN TrimEnd(SubSeq(s, 1, Len(s) - 1)) ELSE s

\* String.prototype.trim
trim(s) == TrimEnd(TrimStart(s))

Digit == {"0", "1", "2", "3", "4", "5", "6", "7", "8", "9"}

DigitVal(ch) ==
    CASE ch = "0" -> 0 [] ch = "1" -> 1 [] ch = "2" -> 2 [] ch = "3" -> 3
      [] ch = "4" -> 4 [] ch = "5" -> 5 [] ch = "6" -> 6 [] ch = "7" -> 7
      [] ch = "8" -> 8 [] ch = "9" -> 9

AllDigits(s) == \A i \in 1..Len(s) : SubSeq(s, i, i) \in Digit

RECURSIVE DecimalValue(_)
DecimalValue(s) ==
    IF Len(s) = 0 THEN 0
    ELSE 10 * DecimalValue(SubSeq(s, 1, Len(s) - 1)) + DigitVal(SubSeq(s, Len(s), Len(s)))

NaN == [nan |-> TRUE, n |-> 0]
Finite(n) == [nan |-> FALSE, n |-> n]

\* Number(v): a number is itself; a string is trimmed, the empty string is 0,
\* a run of decimal digits is its value, anything else is NaN; a missing
\* value (undefined) is NaN.
Number(v) ==
    CASE v.t = "num" -> Finite(v.n)
      [] v.t = "str" ->
            LET w == trim(v.s)
            IN  IF w = "" THEN Finite(0)
                ELSE IF AllDigits(w) THEN Finite(DecimalValue(w))
                ELSE NaN
      [] OTHER -> NaN

\* x || d on a number: NaN and 0 are falsy
OrDefault(x, d) == IF x.nan \/ x.n = 0 THEN d ELSE x.n

\* String(v) / v.toString() on a number or a string
JSString(v) == IF v.t = "num" THEN ToString(v.n) ELSE v.s

\* truthiness of a raw cell value: undefined, "" and 0 are falsy
Truthy(v) ==
    CASE v.t = "num" -> v.n # 0
      [] v.t = "str" -> v.s # ""
      [] OTHER -> FALSE

\* ------------------------------------------------------------------------
\* The spreadsheet decoder (XLSX.utils.sheet_to_json) as processFile calls it.
\* A worksheet is the sequence of the rows of its used range, each row a
\* sequence of cells of the sheet's width; an empty worksheet is <<>>.
\* ------------------------------------------------------------------------

\* sheet_to_json(worksheet, {header: 1}): the rows as arrays of raw values,
\* blank rows included, empty cells left as holes.
sheet_to_json_header1(sheet) == sheet

\* The text of a header cell; an empty header cell is named __EMPTY.
HeaderText(cell) == IF cell.t = "empty" THEN "__EMPTY" ELSE JSString(cell)

\* First free name v_<counter>, v_<counter+1>, ... among the keys given out.
RECURSIVE FreeHeader(_, _, _)
FreeHeader(used, v, counter) ==
    LET vv == v \o "_" \o ToString(counter)
    IN  IF vv \in used THEN FreeHeader(used, v, counter + 1) ELSE vv

\* The object keys the decoder derives from the header row: the cell text,
\* a repeated text made distinct by a _<n> suffix.
RECURSIVE HeaderKeys(_, _)
HeaderKeys(hrow, used) ==
    IF hrow = <<>> THEN <<>>
    ELSE LET v == HeaderText(Head(hrow))
             key == IF v \in used THEN FreeHeader(used, v, 1) ELSE v
         IN  <<key>> \o HeaderKeys(Tail(hrow), used \cup {key})

\* One data row as an object: the entries key -> raw value of its non-empty
\* cells, in column order.
RECURSIVE make_json_row(_, _)
make_json_row(keys, row) ==
    IF row = <<>> THEN <<>>
    ELSE (IF Head(row).t = "empty" THEN <<>>
          ELSE <<[k |-> Head(keys), v |-> Head(row)]>>)
         \o make_json_row(Tail(keys), Tail(row))

\* sheet_to_json(worksheet): the data rows as objects, blank rows skipped.
sheet_to_json(sheet) ==
    IF sheet = <<>> THEN <<>>
    ELSE LET keys == HeaderKeys(Head(sheet), {})
             objs == [i \in 1..(Len(sheet) - 1) |-> make_json_row(keys, sheet[i + 1])]
         IN  SelectSeq(objs, LAMBDA o : o # <<>>)

\* ------------------------------------------------------------------------
\* processFile: the significant headers
\* ------------------------------------------------------------------------
\* fileHeaders.filter(h => h && h.toString().trim() !== '')
HeaderKept(h) == Truthy(h) /\ trim(JSString(h)) # ""

cleanHeaders(fileHeaders) == SelectSeq(fileHeaders, HeaderKept)

\* ------------------------------------------------------------------------
\* handleImport: building the batch
\* ------------------------------------------------------------------------
ESSENTIAL_MAP(key) ==
    CASE key \in {"paiming", "Rank", "RANK"} -> "rank"
      [] key \in {"cheshou", "cheshouxingming", "cheshouID", "xingming", "Driver", "Name"}
            -> "driver_id"
      [] key \in {"jifen", "Points", "POINTS"} -> "points"
      [] OTHER -> "none"

DefaultRank == 999
DefaultPoints == 0

\* ScanKey that keeps what an earlier header of the role gave: a local is
\* set only while it has its initial value
ScanKey_FirstWins(acc, e) ==
    LET mapped == ESSENTIAL_MAP(trim(e.k))
    IN  [rank |-> IF mapped = "rank" /\ acc.rank = DefaultRank
                  THEN OrDefault(Number(e.v), DefaultRank) ELSE acc.rank,
         driver_id |-> IF mapped = "driver_id" /\ acc.driver_id = "Unknown"
                       THEN JSString(e.v) ELSE acc.driver_id,
         points |-> IF mapped = "points" /\ acc.points = DefaultPoints
                    THEN OrDefault(Number(e.v), DefaultPoints) ELSE acc.points]

\* One step of Object.keys(row).forEach: the entry e updates the three
\* locals rank, driver_id, points.
ScanKey(acc, e) ==
    LET mapped == ESSENTIAL_MAP(trim(e.k))
    IN  [rank |-> IF mapped = "rank" THEN OrDefault(Number(e.v), DefaultRank) ELSE acc.rank,
         driver_id |-> IF mapped = "driver_id" THEN JSString(e.v) ELSE acc.driver_id,
         points |-> IF mapped = "points" THEN OrDefault(Number(e.v), DefaultPoints)
                    ELSE acc.points]

RECURSIVE ScanRow(_, _)
ScanRow(acc, row) ==
    IF row = <<>> THEN acc ELSE ScanRow(ScanKey(acc, Head(row)), Tail(row))

\* rank, driver_id, points of a row before the Unknown replacement
Essential(row) == ScanRow([rank |-> DefaultRank, driver_id |-> "Unknown",
                           points |-> DefaultPoints], row)

\* JSON.stringify of a row object and of {columns: headers}: a JSON document
\* is the sequence of its members, a member value a number, a string or an
\* array of those.
JNum(n) == [t |-> "num", n |-> n, s |-> "", a |-> <<>>]
JStr(s) == [t |-> "str", n |-> 0, s |-> s, a |-> <<>>]
JArr(a) == [t |-> "arr", n |-> 0, s |-> "", a |-> a]
ToJSON(v) == IF v.t = "num" THEN JNum(v.n) ELSE JStr(v.s)

\* JSONstringifyRow that writes every value as its text (String(value))
JSONstringifyRow_AsText(row) ==
    [i \in 1..Len(row) |-> [k |-> row[i].k, v |-> JStr(JSString(row[i].v))]]

JSONstringifyRow(row) == [i \in 1..Len(row) |-> [k |-> row[i].k, v |-> ToJSON(row[i].v)]]
JSONstringifyColumns(headers) ==
    <<[k |-> "columns", v |-> JArr([i \in 1..Len(headers) |-> ToJSON(headers[i])])]>>

METADATA == "__METADATA__"

metadataRecord(roundId, headers) ==
    [round_id |-> roundId, driver_id |-> METADATA, rank |-> 0, points |-> 0,
     display_races |-> JSONstringifyColumns(headers)]

\* dataRecord without the replacement of 'Unknown'
dataRecord_KeepUnknown(roundId, row, suffix) ==
    LET e == Essential(row)
    IN  [round_id |-> roundId, driver_id |-> e.driver_id,
         rank |-> e.rank, points |-> e.points,
         display_races |-> JSONstringifyRow(row)]

\* The record of one parsed row; suffix is what
\* Math.random().toString(36).substr(2, 9) returned for it.
dataRecord(roundId, row, suffix) ==
    LET e == Essential(row)
    IN  [round_id |-> roundId,
         driver_id |-> IF e.driver_id = "Unknown" THEN "Unknown_" \o suffix
                       ELSE e.driver_id,
         rank |-> e.rank, points |-> e.points,
         display_races |-> JSONstringifyRow(row)]

\* parsedRows.map(...), suffixes[i] the random suffix drawn for row i
dataRecords(roundId, parsedRows, suffixes) ==
    [i \in 1..Len(parsedRows) |-> dataRecord(roundId, parsedRows[i], suffixes[i])]

\* The Map uniqueRecords: its entries in insertion order.
MapHas(m, key) == \E i \in 1..Len(m) : m[i].driver_id = key

\* Map.prototype.set: a present key keeps its place and takes the new value
MapSet(m, key, rec) ==
    IF MapHas(m, key)
    THEN [i \in 1..Len(m) |-> IF m[i].driver_id = key THEN rec ELSE m[i]]
    ELSE Append(m, rec)

\* NewId without the while loop: the first candidate is taken as it is
NewId_NoProbe(m, id, counter) == id \o "_" \o ToString(counter)

\* the while loop: the first id_<counter> that is not a key of the map
RECURSIVE NewId(_, _, _)
NewId(m, id, counter) ==
    LET newId == id \o "_" \o ToString(counter)
    IN  IF MapHas(m, newId) THEN NewId(m, id, counter + 1) ELSE newId

\* DedupStep that, on a collision, gives the numbered name to the record
\* already stored and the identity to the new one
DedupStep_RenameStored(m, record) ==
    IF ~MapHas(m, record.driver_id)
    THEN MapSet(m, record.driver_id, record)
    ELSE LET newId == NewId(m, record.driver_id, 1)
         IN  Append([i \in 1..Len(m) |->
                        IF m[i].driver_id = record.driver_id
                        THEN [m[i] EXCEPT !.driver_id = newId] ELSE m[i]],
                    record)

\* DedupStep that gives every record a numbered name, the first of an
\* identity too
DedupStep_SuffixAll(m, record) ==
    LET newId == NewId(m, record.driver_id, 1)
    IN  MapSet(m, newId, [record EXCEPT !.driver_id = newId])

\* DedupStep that keeps the first record of an identity and skips the others
DedupStep_SkipDuplicate(m, record) ==
    IF ~MapHas(m, record.driver_id) THEN MapSet(m, record.driver_id, record) ELSE m

\* one step of dataRecords.forEach
DedupStep(m, record) ==
    IF ~MapHas(m, record.driver_id)
    THEN MapSet(m, record.driver_id, record)
    ELSE LET newId == NewId(m, record.driver_id, 1)
         IN  MapSet(m, newId, [record EXCEPT !.driver_id = newId])

RECURSIVE uniqueRecords(_, _)
uniqueRecords(m, recs) ==
    IF recs = <<>> THEN m ELSE uniqueRecords(DedupStep(m, Head(recs)), Tail(recs))

\* Array.from(uniqueRecords.values())
finalDataRecords(recs) == uniqueRecords(<<>>, recs)

allRecords(meta, recs) == <<meta>> \o finalDataRecords(recs)

\* ------------------------------------------------------------------------
\* The rankings store (supabase.from('rankings')): a set of rows, each with
\* the id the database gave it.
\* ------------------------------------------------------------------------
RoundRecords(st, r) == {rec \in st : rec.round_id = r}

\* .delete().eq('round_id', r), when it succeeds
StoreDelete(st, r) == st \ RoundRecords(st, r)

\* .insert(batch), when it succeeds: every record of the batch becomes a row,
\* the ids taken from the sequence in batch order
Stored(rec, id) ==
    [id |-> id, round_id |-> rec.round_id, driver_id |-> rec.driver_id,
     rank |-> rec.rank, points |-> rec.points, display_races |-> rec.display_races]

\* StoreInsert as an upsert on (round_id, driver_id): a row that has the
\* round and the driver_id of a record of the batch gives way to it
StoreInsert_Upsert(st, batch, firstId) ==
    {row \in st : \A i \in 1..Len(batch) :
        row.round_id # batch[i].round_id \/ row.driver_id # batch[i].driver_id}
    \cup {Stored(batch[i], firstId + i - 1) : i \in 1..Len(batch)}

StoreInsert(st, batch, firstId) ==
    st \cup {Stored(batch[i], firstId + i - 1) : i \in 1..Len(batch)}

\* ------------------------------------------------------------------------
\* Dashboard: what fetchRankings makes of the rows of a round
\* ------------------------------------------------------------------------
\* JSON.parse of a member value that JSON.stringify wrote for a cell
FromJSON(j) == IF j.t = "num" THEN Num(j.n) ELSE Str(j.s)

\* JSON.parse(r.display_races) of a data row: the object, its members in
\* document order
JSONparseRow(doc) == [i \in 1..Len(doc) |-> [k |-> doc[i].k, v |-> FromJSON(doc[i].v)]]

\* obj[key]: the value of the member named String(key), a hole (undefined)
\* when obj has none
Member(obj, key) ==
    IF \E i \in 1..Len(obj) : obj[i].k = key
    THEN obj[CHOOSE i \in 1..Len(obj) : obj[i].k = key].v
    ELSE Hole

\* dynamicColumns: null, or the columns in order, each by its key
NoColumns == [isNull |-> TRUE, columns |-> <<>>]
Columns(cols) == [isNull |-> FALSE, columns |-> cols]

\* JSON.parse(metadataRow.display_races) and meta.columns.map(...): the
\* column keys when the document has a member 'columns' that is an array
currentDynamicCols(metadataRow) ==
    LET doc == metadataRow.display_races
        cols == {i \in 1..Len(doc) : doc[i].k = "columns" /\ doc[i].v.t = "arr"}
    IN  IF cols = {} THEN NoColumns
        ELSE LET a == doc[CHOOSE i \in cols : TRUE].v.a
             IN  Columns([i \in 1..Len(a) |-> FromJSON(a[i])])

\* data.find(r => r.driver_id === '__METADATA__') over rows ordered by rank:
\* the rows it can return, one of least rank among those so named
metadataRows(data) ==
    LET named == {r \in data : r.driver_id = METADATA}
    IN  {r \in named : \A o \in named : r.rank <= o.rank}

\* data.filter(r => r.driver_id !== '__METADATA__')
realData(data) == {r \in data : r.driver_id # METADATA}

\* one Driver of mappedDrivers; the rows of the model have no tier
mappedDriver(r) ==
    [id |-> ToString(r.id), rank |-> r.rank, name |-> r.driver_id, team |-> "-",
     car |-> "-", points |-> r.points, rawData |-> JSONparseRow(r.display_races)]

\* .order('rank'): the orders the rows can come in, rows of equal rank in
\* any order
RECURSIVE RankOrders(_)
RankOrders(rows) ==
    IF rows = {} THEN {<<>>}
    ELSE LET least == {r \in rows : \A o \in rows : r.rank <= o.rank}
         IN  UNION {{<<r>> \o t : t \in RankOrders(rows \ {r})} : r \in least}

\* render of a dynamic column for a driver: row.rawData[col]
render(col, driver) == Member(driver.rawData, JSString(col))

\* ------------------------------------------------------------------------
\* EditDriverModal: the form over the fields of a driver
\* ------------------------------------------------------------------------
\* obj[key] = value: a key the object has keeps its place
ObjSet(obj, key, value) ==
    IF \E i \in 1..Len(obj) : obj[i].k = key
    THEN [i \in 1..Len(obj) |-> IF obj[i].k = key THEN [k |-> key, v |-> value] ELSE obj[i]]
    ELSE Append(obj, [k |-> key, v |-> value])

\* the effect on [driver]: { ...driver.rawData }, then rank and points of
\* the driver under 'rank' and 'points' where the object has nothing truthy
initialData(driver) ==
    LET withRank == IF ~Truthy(Member(driver.rawData, "rank"))
                    THEN ObjSet(driver.rawData, "rank", Num(driver.rank))
                    ELSE driver.rawData
    IN  IF ~Truthy(Member(withRank, "points"))
        THEN ObjSet(withRank, "points", Num(driver.points))
        ELSE withRank

\* handleChange(key, value): the text of the input under the key
handleChange(formData, key, value) == ObjSet(formData, key, Str(value))

\* Number(a) || Number(b) || ... || d
RECURSIVE FirstTruthy(_, _)
FirstTruthy(xs, d) ==
    IF xs = <<>> THEN d
    ELSE IF Head(xs).nan \/ Head(xs).n = 0 THEN FirstTruthy(Tail(xs), d)
    ELSE Head(xs).n

newRank(formData) ==
    FirstTruthy(<<Number(Member(formData, "rank")), Number(Member(formData, "Rank")),
                  Number(Member(formData, "RANK"))>>, DefaultRank)

newPoints(formData) ==
    FirstTruthy(<<Number(Member(formData, "points")), Number(Member(formData, "Points")),
                  Number(Member(formData, "POINTS"))>>, DefaultPoints)

\* handleSubmit: { ...driver, rank: newRank, points: newPoints, rawData }
updatedDriver(driver, formData) ==
    [driver EXCEPT !.rank = newRank(formData), !.points = newPoints(formData),
                   !.rawData = formData]

\* handleUpdateDriver: the update it sends for the driver of session s
UpdateRequest(s, d) ==
    [session |-> s, id |-> d.id, rank |-> d.rank, points |-> d.points,
     display_races |-> JSONstringifyRow(d.rawData)]

\* StoreUpdate that inserts a row when no row has the id (an upsert)
StoreUpdate_Upsert(st, u) ==
    IF \E row \in st : ToString(row.id) = u.id
    THEN {IF ToString(row.id) = u.id
          THEN [row EXCEPT !.rank = u.rank, !.points = u.points,
                           !.display_races = u.display_races]
          ELSE row : row \in st}
    ELSE st \cup {[id |-> 0, round_id |-> "R1", driver_id |-> "Unknown",
                    rank |-> u.rank, points |-> u.points,
                    display_races |-> u.display_races]}

\* .update({rank, points, display_races}).eq('id', u.id), when it succeeds
StoreUpdate(st, u) ==
    {IF ToString(row.id) = u.id
     THEN [row EXCEPT !.rank = u.rank, !.points = u.points,
                      !.display_races = u.display_races]
     ELSE row : row \in st}

\* ------------------------------------------------------------------------
\* DriverTable: search and pages
\* ------------------------------------------------------------------------
itemsPerPage == 10

UpperLetters ==
    <<"A", "B", "C", "D", "E", "F", "G", "H", "I", "J", "K", "L", "M",
      "N", "O", "P", "Q", "R", "S", "T", "U", "V", "W", "X", "Y", "Z">>
LowerLetters ==
    <<"a", "b", "c", "d", "e", "f", "g", "h", "i", "j", "k", "l", "m",
      "n", "o", "p", "q", "r", "s", "t", "u", "v", "w", "x", "y", "z">>

RECURSIVE toLowerCase(_)
toLowerCase(s) ==
    IF Len(s) = 0 THEN s
    ELSE LET ch == SubSeq(s, 1, 1)
             up == {i \in 1..26 : UpperLetters[i] = ch}
         IN  (IF up = {} THEN ch ELSE LowerLetters[CHOOSE i \in up : TRUE])
             \o toLowerCase(SubSeq(s, 2, Len(s)))

\* String.prototype.includes
includes(s, q) ==
    \E i \in 0..(Len(s) - Len(q)) : SubSeq(s, i + 1, i + Len(q)) = q

\* the callback of drivers.filter
driverMatches(driver, searchQuery) ==
    IF searchQuery = "" THEN TRUE
    ELSE LET q == toLowerCase(searchQuery)
         IN  \/ includes(toLowerCase(driver.name), q)
             \/ includes(toLowerCase(driver.team), q)
             \/ includes(toLowerCase(driver.car), q)
             \/ \E i \in 1..Len(driver.rawData) :
                    includes(toLowerCase(JSString(driver.rawData[i].v)), q)

filteredDrivers(drvs, searchQuery) ==
    SelectSeq(drvs, LAMBDA d : driverMatches(d, searchQuery))

\* Math.ceil(sortedDrivers.length / itemsPerPage); sortKey is null, so
\* sortedDrivers is filteredDrivers in its order
totalPages(drvs, searchQuery) ==
    (Len(filteredDrivers(drvs, searchQuery)) + itemsPerPage - 1) \div itemsPerPage

\* sortedDrivers.slice(startIndex, startIndex + itemsPerPage)
paginatedDrivers(drvs, searchQuery, page) ==
    LET sorted == filteredDrivers(drvs, searchQuery)
        startIndex == (page - 1) * itemsPerPage
        last == IF startIndex + itemsPerPage < Len(sorted)
                THEN startIndex + itemsPerPage ELSE Len(sorted)
    IN  SubSeq(sorted, startIndex + 1, last)

\* ------------------------------------------------------------------------
\* State
\* ------------------------------------------------------------------------
Sessions == {1, 2}
\* handleImport calls the model keeps apart at one time
MaxImports == 2
ImportIds == 1..MaxImports
\* mounts of the modal per session, and ids the table's sequence hands out
MaxOpens == 2
MaxId == 7
\* fetchRankings calls of one session and round the model keeps apart at
\* one time
MaxFetches == 2
\* addLog calls and fetchLogs calls of one session awaited at one time, and
\* rows of the logs table
MaxLogs == 2
MaxLogRows == 2
\* handleClearData calls of one session and round, and handleUpdateDriver
\* calls, awaited at one time
MaxClears == 1
MaxUpdates == 1
\* inputs of the edit form that are changed before it is saved
MaxChanges == 1
\* fetchLogs: .limit(50)
LogLimit == 50
Rounds == {"R1", "R2"}
NoRound == "none"
Null == "null"

\* the texts of setErrorMsg
MsgEmptyFile == "file is empty"
MsgNoRows == "no valid data rows"
MsgParseFailed == "parsing the file failed"
MsgNoRound == "no target round selected"
MsgImportFailed == "import into the database failed"

VARIABLES
    files,       \* files[s]: the files the user of session s can pick
    store,       \* the rows of the rankings table
    nextId,      \* the next id of the table's sequence
    open,        \* open[s]: the BulkImportModal of session s is mounted
    inst,        \* inst[s]: how many times session s has mounted the modal
    roundId,     \* the roundId prop of the mounted modal
    step, parsedRows, headers, errorMsg,   \* its useState cells
    reading,     \* reading[s]: the files whose arrayBuffer() processFile awaits
    imports,     \* the handleImport calls: where each is and what it holds
    selectedRoundId,   \* selectedRoundId[s]: the round the dashboard of s shows
    fetching,    \* fetching[s][r]: the fetchRankings calls of s for round r
                 \* that await the select
    dynamicColumns, drivers,  \* what the last answered fetchRankings set
    viewOf,      \* history: viewOf[s] is the round they were set from
    lastOk,      \* history: lastOk[s][r], the fetchRankings of s for r that
                 \* was answered last was answered without error
    editingDriver, \* editingDriver[s]: the driver of the mounted EditDriverModal
    formData, loading,   \* the useState cells of EditDriverModal
    updates,     \* the updates of handleUpdateDriver calls awaiting the answer
    clears,      \* clears[s][r]: the handleClearData calls of s on r awaiting
    addLogs,     \* addLogs[s]: the addLog calls of s awaiting the insert
    fetchLogs,   \* fetchLogs[s]: the fetchLogs calls of s awaiting the select
    logTable,    \* the number of rows of the logs table
    logs,        \* logs[s]: the number of log rows the dashboard of s holds
    searchQuery, currentPage,   \* the useState cells of DriverTable
    batches      \* history: <<first id, length>> of every batch inserted

modalVars == <<open, inst, roundId, step, parsedRows, headers, errorMsg, reading>>
dashVars == <<selectedRoundId, fetching, dynamicColumns, drivers>>
viewVars == <<viewOf, lastOk>>
editVars == <<editingDriver, formData, loading, updates>>
logVars == <<addLogs, fetchLogs, logTable, logs>>
tableVars == <<searchQuery, currentPage>>
sideVars == <<viewVars, editVars, clears, logVars, tableVars, batches>>
vars == <<files, store, nextId, modalVars, imports, dashVars, sideVars>>

\* editingDriver when no EditDriverModal is mounted (null)
NoDriver ==
    [id |-> "", rank |-> 0, name |-> "", team |-> "", car |-> "", points |-> 0,
     rawData |-> <<>>]

\* no modal lies over the dashboard of session s
NoOverlay(s) == ~open[s] /\ editingDriver[s] = NoDriver

\* setRefreshKey(prev => prev + 1): the effects that depend on refreshKey
\* run, fetchRankings when a round is selected and fetchLogs
Refresh(s) ==
    /\ fetching' =
            IF selectedRoundId[s] = NoRound THEN fetching
            ELSE [fetching EXCEPT ![s][selectedRoundId[s]] =
                        IF @ = MaxFetches THEN @ ELSE @ + 1]
    /\ fetchLogs' = [fetchLogs EXCEPT ![s] = IF @ = MaxLogs THEN @ ELSE @ + 1]

\* addLog(...): the insert into the logs table is sent
AddLog(s) == addLogs' = [addLogs EXCEPT ![s] = IF @ = MaxLogs THEN @ ELSE @ + 1]

\* the fetchRankings calls of session s that await their answer
Fetches(f, s) == f[s]["R1"] + f[s]["R2"]

\* An import slot that holds no call.  prior, sole, after and orphan are
\* history: the rows of the round when the call began, whether every write
\* to the round since then was its own, the calls on the same round whose
\* delete was answered before this call's delete and whose insert was not
\* yet, and, while the insert is awaited, whether the modal of the call was
\* gone when its delete was answered.
FreeImport ==
    [pc |-> "free", session |-> 0, inst |-> 0, roundId |-> NoRound,
     rows |-> <<>>, meta |-> metadataRecord(NoRound, <<>>), data |-> <<>>,
     batch |-> <<>>, firstId |-> 0,
     prior |-> {}, sole |-> TRUE, after |-> {}, orphan |-> FALSE]

Finished(i) == imports[i].pc \in {"free", "failed", "done"}

\* the setState calls of a handleImport call reach the component only while
\* the instance that started it is still mounted
Mounted(imp) == open[imp.session] /\ inst[imp.session] = imp.inst

\* slot i takes a new call: the history of the other calls names it no more
Forget(i) == [j \in ImportIds |-> [imports[j] EXCEPT !.after = @ \ {i}]]

\* the calls on the round of call i whose delete is answered and whose
\* insert is not
Deleted(i) ==
    {j \in ImportIds \ {i} :
        imports[j].roundId = imports[i].roundId /\ imports[j].pc = "insert"}

\* another call's write reached round r: no call on r is the sole writer now
Disturb(i, r) ==
    [j \in ImportIds |->
        IF j # i /\ imports[j].roundId = r /\ imports[j].pc # "free"
        THEN [imports[j] EXCEPT !.sole = FALSE] ELSE imports[j]]

\* ------------------------------------------------------------------------
\* The files of the model.  A file is a workbook XLSX.read accepts (valid,
\* with its first sheet) or one it throws on.
\* ------------------------------------------------------------------------
Workbook(sheet) == [valid |-> TRUE, sheet |-> sheet]
Corrupt == [valid |-> FALSE, sheet |-> <<>>]

SeqsUpTo(S, n) == UNION {[1..k -> S] : k \in 1..n}

\* header rows of every shape, over one data row
HeaderCells == {Hole, Str("Rank"), Str("  "), Num(0), Str(" Name ")}
HeaderSheets ==
    {<<h, [c \in 1..Len(h) |-> Str("a")]>> : h \in SeqsUpTo(HeaderCells, MaxCols)}

\* one data row of every shape under headers that name the three roles once,
\* twice, padded with blanks, or not at all
Layouts ==
    {<<Str("Rank"), Str("Name"), Str("Points")>>,
     <<Str("paiming"), Str("cheshou"), Str("jifen")>>,
     <<Str("Rank"), Str("RANK"), Str("Name")>>,
     <<Str("Name"), Str("Driver"), Str("POINTS")>>,
     <<Str(" Rank "), Str("Foo"), Str("Points")>>,
     <<Str("Points"), Str("jifen"), Str("xingming")>>}
DataCells == {Hole, Num(3), Num(0), Str("40"), Str(" 5 "), Str("Unknown")}
EssentialSheets == {<<h, r>> : h \in Layouts, r \in [1..3 -> DataCells]}

\* up to MaxRows rows whose driver cells repeat, look renamed already, name
\* the metadata row, or are missing
DriverCells == {Str("Bob"), Str("Bob_1"), Str(METADATA), Str("Unknown_k"), Hole}
DriverRows == {<<d, Str("x")>> : d \in DriverCells}
DedupSheets ==
    {<<<<Str("Name"), Str("Foo")>>>> \o rows :
        rows \in {<<>>} \cup SeqsUpTo(DriverRows, MaxRows)}

\* the header row and the two rows of the specification's examples, a row
\* without a cell, a header text that stands over two columns, and two rows
\* of one driver
ExampleSheets ==
    {<<<<Str("paiming"), Hole, Str("cheshou"), Str("jifen"), Str("  ")>>,
       <<Num(1), Str("n/a"), Str("Alice"), Num(25), Str("pad")>>>>,
     <<<<Str("Rank"), Str("Name"), Str("Points")>>,
       <<Str("3"), Str("Alice"), Str("40")>>>>,
     <<<<Str("Foo")>>, <<Str("bar")>>>>,
     <<<<Str("Name")>>, <<Hole>>>>,
     <<<<Str("Rank"), Str("Rank"), Str("Name")>>, <<Num(1), Num(2), Str("Bob")>>>>,
     <<<<Str("Name"), Str("Team")>>, <<Str("Bob"), Str("X")>>, <<Str("Bob"), Str("Y")>>>>,
     <<>>}

Files ==
    {Workbook(sh) : sh \in HeaderSheets \cup EssentialSheets \cup DedupSheets
                            \cup ExampleSheets}
    \cup {Corrupt}

\* what Math.random().toString(36).substr(2, 9) can return, cut down to two
\* values; the empty string is what a draw of 0 gives
Suffixes == {"", "k"}

\* the files of the two users of the concurrent specification
SheetA ==
    <<<<Str("Rank"), Str("Name"), Str("Points")>>,
      <<Num(1), Str("Alice"), Num(40)>>,
      <<Num(2), Str("Bob"), Num(30)>>>>
SheetB ==
    <<<<Str("Name"), Str("Team")>>,
      <<Str("Bob"), Str("X")>>,
      <<Str("Bob"), Str("Y")>>>>
SmallFile(s) == IF s = 1 THEN Workbook(SheetA) ELSE Workbook(SheetB)

\* the rows a round holds from an earlier import of SheetA
PriorBatch(r) ==
    allRecords(metadataRecord(r, cleanHeaders(Head(SheetA))),
               dataRecords(r, sheet_to_json(SheetA), [i \in 1..2 |-> ""]))
PriorStore ==
    StoreInsert(StoreInsert({}, PriorBatch("R1"), 1),
                PriorBatch("R2"), 1 + Len(PriorBatch("R1")))
PriorNextId == 1 + Len(PriorBatch("R1")) + Len(PriorBatch("R2"))
PriorBatches ==
    {<<1, Len(PriorBatch("R1"))>>, <<1 + Len(PriorBatch("R1")), Len(PriorBatch("R2"))>>}

\* ------------------------------------------------------------------------
\* processFile
\* ------------------------------------------------------------------------
\* handleFileChange: the file input is rendered in step 'upload'; processFile
\* clears the error and awaits file.arrayBuffer()
ProcessFileStart(s, file) ==
    /\ open[s] /\ step[s] = "upload"
    /\ file \in files[s]
    /\ errorMsg' = [errorMsg EXCEPT ![s] = Null]
    /\ reading' = [reading EXCEPT ![s] = @ \cup {file}]
    /\ UNCHANGED <<files, store, nextId, open, inst, roundId, step, parsedRows,
                   headers, imports>>
    /\ UNCHANGED <<dashVars, sideVars>>

\* ProcessFileDone without the check of rows.length
ProcessFileDone_NoRowCheck(s, file) ==
    /\ open[s] /\ file \in reading[s]
    /\ reading' = [reading EXCEPT ![s] = @ \ {file}]
    /\ LET jsonData == sheet_to_json_header1(file.sheet)
           rows == sheet_to_json(file.sheet)
       IN  IF ~file.valid
           THEN /\ errorMsg' = [errorMsg EXCEPT ![s] = MsgParseFailed]
                /\ UNCHANGED <<step, parsedRows, headers>>
           ELSE IF Len(jsonData) = 0
           THEN /\ errorMsg' = [errorMsg EXCEPT ![s] = MsgEmptyFile]
                /\ UNCHANGED <<step, parsedRows, headers>>
           ELSE /\ headers' = [headers EXCEPT ![s] = cleanHeaders(jsonData[1])]
                /\ parsedRows' = [parsedRows EXCEPT ![s] = rows]
                /\ step' = [step EXCEPT ![s] = "preview"]
                /\ UNCHANGED errorMsg
    /\ UNCHANGED <<files, store, nextId, open, inst, roundId, imports>>
    /\ UNCHANGED <<dashVars, sideVars>>

\* ProcessFileDone that calls setHeaders as soon as the header row is read,
\* before the check of rows.length
ProcessFileDone_HeadersFirst(s, file) ==
    /\ open[s] /\ file \in reading[s]
    /\ reading' = [reading EXCEPT ![s] = @ \ {file}]
    /\ LET jsonData == sheet_to_json_header1(file.sheet)
           rows == sheet_to_json(file.sheet)
       IN  IF ~file.valid
           THEN /\ errorMsg' = [errorMsg EXCEPT ![s] = MsgParseFailed]
                /\ UNCHANGED <<step, parsedRows, headers>>
           ELSE IF Len(jsonData) = 0
           THEN /\ errorMsg' = [errorMsg EXCEPT ![s] = MsgEmptyFile]
                /\ UNCHANGED <<step, parsedRows, headers>>
           ELSE IF Len(rows) = 0
           THEN /\ errorMsg' = [errorMsg EXCEPT ![s] = MsgNoRows]
                /\ headers' = [headers EXCEPT ![s] = cleanHeaders(jsonData[1])]
                /\ UNCHANGED <<step, parsedRows>>
           ELSE /\ headers' = [headers EXCEPT ![s] = cleanHeaders(jsonData[1])]
                /\ parsedRows' = [parsedRows EXCEPT ![s] = rows]
                /\ step' = [step EXCEPT ![s] = "preview"]
                /\ UNCHANGED errorMsg
    /\ UNCHANGED <<files, store, nextId, open, inst, roundId, imports>>
    /\ UNCHANGED <<dashVars, sideVars>>

\* the rest of processFile, once the bytes are there
ProcessFileDone(s, file) ==
    /\ open[s] /\ file \in reading[s]
    /\ reading' = [reading EXCEPT ![s] = @ \ {file}]
    /\ LET jsonData == sheet_to_json_header1(file.sheet)
           rows == sheet_to_json(file.sheet)
       IN  IF ~file.valid
           THEN /\ errorMsg' = [errorMsg EXCEPT ![s] = MsgParseFailed]
                /\ UNCHANGED <<step, parsedRows, headers>>
           ELSE IF Len(jsonData) = 0
           THEN /\ errorMsg' = [errorMsg EXCEPT ![s] = MsgEmptyFile]
                /\ UNCHANGED <<step, parsedRows, headers>>
           ELSE IF Len(rows) = 0
           THEN /\ errorMsg' = [errorMsg EXCEPT ![s] = MsgNoRows]
                /\ UNCHANGED <<step, parsedRows, headers>>
           ELSE /\ headers' = [headers EXCEPT ![s] = cleanHeaders(jsonData[1])]
                /\ parsedRows' = [parsedRows EXCEPT ![s] = rows]
                /\ step' = [step EXCEPT ![s] = "preview"]
                /\ UNCHANGED errorMsg
    /\ UNCHANGED <<files, store, nextId, open, inst, roundId, imports>>
    /\ UNCHANGED <<dashVars, sideVars>>

\* the button of the preview step that goes back to the upload step
ReUpload(s) ==
    /\ open[s] /\ step[s] = "preview"
    /\ step' = [step EXCEPT ![s] = "upload"]
    /\ UNCHANGED <<files, store, nextId, open, inst, roundId, parsedRows, headers,
                   errorMsg, reading, imports>>
    /\ UNCHANGED <<dashVars, sideVars>>

\* ------------------------------------------------------------------------
\* handleImport
\* ------------------------------------------------------------------------
\* HandleImport without the guard on roundId
HandleImport_NoGuard(s) ==
    /\ open[s] /\ step[s] = "preview"
    /\ \E i \in ImportIds, sfx \in [1..Len(parsedRows[s]) -> Suffixes] :
            /\ Finished(i) /\ \A j \in ImportIds : Finished(j) => i <= j
            /\ step' = [step EXCEPT ![s] = "uploading"]
            /\ imports' = [Forget(i) EXCEPT ![i] =
                    [pc |-> "delete", session |-> s, inst |-> inst[s],
                     roundId |-> roundId[s], rows |-> parsedRows[s],
                     meta |-> metadataRecord(roundId[s], headers[s]),
                     data |-> dataRecords(roundId[s], parsedRows[s], sfx),
                     batch |-> <<>>, firstId |-> 0,
                     prior |-> RoundRecords(store, roundId[s]), sole |-> TRUE,
                     after |-> {}, orphan |-> FALSE]]
            /\ UNCHANGED errorMsg
    /\ UNCHANGED <<files, store, nextId, open, inst, roundId, parsedRows, headers,
                   reading>>
    /\ UNCHANGED <<dashVars, sideVars>>

\* The 'confirm import' button of the preview step: the guard on roundId,
\* setStep('uploading'), the metadata record and the data records, and the
\* delete request sent.
HandleImport(s) ==
    /\ open[s] /\ step[s] = "preview"
    /\ IF roundId[s] = NoRound
       THEN /\ errorMsg' = [errorMsg EXCEPT ![s] = MsgNoRound]
            /\ UNCHANGED <<step, imports>>
       ELSE \E i \in ImportIds, sfx \in [1..Len(parsedRows[s]) -> Suffixes] :
            /\ Finished(i) /\ \A j \in ImportIds : Finished(j) => i <= j
            /\ step' = [step EXCEPT ![s] = "uploading"]
            /\ imports' = [Forget(i) EXCEPT ![i] =
                    [pc |-> "delete", session |-> s, inst |-> inst[s],
                     roundId |-> roundId[s], rows |-> parsedRows[s],
                     meta |-> metadataRecord(roundId[s], headers[s]),
                     data |-> dataRecords(roundId[s], parsedRows[s], sfx),
                     batch |-> <<>>, firstId |-> 0,
                     prior |-> RoundRecords(store, roundId[s]), sole |-> TRUE,
                     after |-> {}, orphan |-> FALSE]]
            /\ UNCHANGED errorMsg
    /\ UNCHANGED <<files, store, nextId, open, inst, roundId, parsedRows, headers,
                   reading>>
    /\ UNCHANGED <<dashVars, sideVars>>

\* Catch for a handleImport that tries again after a failure: the delete is
\* sent once more
Catch_Retry(i) ==
    /\ imports' = [imports EXCEPT ![i].pc = "delete", ![i].orphan = FALSE]
    /\ UNCHANGED <<errorMsg, step>>

\* Catch for a handleImport that sets the timer of onImportSuccess in a
\* finally block: the timer is set after a failure too
Catch_Finally(i) ==
    /\ imports' = [imports EXCEPT ![i].pc = "ok", ![i].orphan = FALSE]
    /\ IF Mounted(imports[i])
       THEN /\ errorMsg' = [errorMsg EXCEPT ![imports[i].session] = MsgImportFailed]
            /\ step' = [step EXCEPT ![imports[i].session] = "preview"]
       ELSE UNCHANGED <<errorMsg, step>>

\* the catch branch: setErrorMsg, setStep('preview')
Catch(i) ==
    /\ imports' = [imports EXCEPT ![i].pc = "failed", ![i].orphan = FALSE]
    /\ IF Mounted(imports[i])
       THEN /\ errorMsg' = [errorMsg EXCEPT ![imports[i].session] = MsgImportFailed]
            /\ step' = [step EXCEPT ![imports[i].session] = "preview"]
       ELSE UNCHANGED <<errorMsg, step>>

\* DeleteReturn whose delete matches no row (the filter names another round)
DeleteReturn_NothingDeleted(i) ==
    /\ imports[i].pc = "delete"
    /\ \/ /\ store' = store
          /\ imports' = [Disturb(i, imports[i].roundId) EXCEPT
                            ![i].pc = "insert", ![i].after = Deleted(i),
                            ![i].orphan = ~Mounted(imports[i]),
                            ![i].batch = allRecords(imports[i].meta, imports[i].data)]
          /\ UNCHANGED <<errorMsg, step>>
       \/ /\ Catch(i)
          /\ UNCHANGED store
    /\ UNCHANGED <<files, nextId, open, inst, roundId, parsedRows, headers, reading>>
    /\ UNCHANGED <<dashVars, sideVars>>

\* DeleteReturn without 'if (deleteError) throw deleteError': after an error
\* of the delete the call goes on to the insert
DeleteReturn_IgnoreError(i) ==
    /\ imports[i].pc = "delete"
    /\ \/ store' = StoreDelete(store, imports[i].roundId)
       \/ store' = store
    /\ imports' = [Disturb(i, imports[i].roundId) EXCEPT
                      ![i].pc = "insert", ![i].after = Deleted(i),
                            ![i].orphan = ~Mounted(imports[i]),
                      ![i].batch = allRecords(imports[i].meta, imports[i].data)]
    /\ UNCHANGED <<errorMsg, step>>
    /\ UNCHANGED <<files, nextId, open, inst, roundId, parsedRows, headers, reading>>
    /\ UNCHANGED <<dashVars, sideVars>>

\* The delete answers.  Without error the rows of the round are gone, the
\* records are deduplicated and the insert of the whole batch is sent; with
\* deleteError the call ends in catch and the table is as it was.
DeleteReturn(i) ==
    /\ imports[i].pc = "delete"
    /\ \/ /\ store' = StoreDelete(store, imports[i].roundId)
          /\ imports' = [Disturb(i, imports[i].roundId) EXCEPT
                            ![i].pc = "insert", ![i].after = Deleted(i),
                            ![i].orphan = ~Mounted(imports[i]),
                            ![i].batch = allRecords(imports[i].meta, imports[i].data)]
          /\ UNCHANGED <<errorMsg, step>>
       \/ /\ Catch(i)
          /\ UNCHANGED store
    /\ UNCHANGED <<files, nextId, open, inst, roundId, parsedRows, headers, reading>>
    /\ UNCHANGED <<dashVars, sideVars>>

\* InsertReturn for records inserted one by one: on insertError the records
\* sent before the failing one are rows already
InsertReturn_OneByOne(i) ==
    /\ imports[i].pc = "insert"
    /\ \/ /\ nextId <= MaxId
          /\ store' = StoreInsert(store, imports[i].batch, nextId)
          /\ nextId' = nextId + Len(imports[i].batch)
          /\ imports' = [Disturb(i, imports[i].roundId) EXCEPT
                            ![i].pc = "ok", ![i].firstId = nextId,
                            ![i].orphan = FALSE]
          /\ IF Mounted(imports[i])
             THEN step' = [step EXCEPT ![imports[i].session] = "success"]
             ELSE UNCHANGED step
          /\ UNCHANGED errorMsg
          /\ batches' = batches \cup {<<nextId, Len(imports[i].batch)>>}
       \/ /\ Catch(i)
          /\ store' = StoreInsert(store, <<imports[i].batch[1]>>, nextId)
          /\ nextId' = nextId + 1
          /\ UNCHANGED batches
    /\ UNCHANGED <<files, open, inst, roundId, parsedRows, headers, reading>>
    /\ UNCHANGED <<dashVars, viewVars, editVars, clears, logVars, tableVars>>

\* InsertReturn with a compensating step: on insertError the rows the
\* delete removed are put back
InsertReturn_Restore(i) ==
    /\ imports[i].pc = "insert"
    /\ \/ /\ nextId <= MaxId
          /\ store' = StoreInsert(store, imports[i].batch, nextId)
          /\ nextId' = nextId + Len(imports[i].batch)
          /\ imports' = [Disturb(i, imports[i].roundId) EXCEPT
                            ![i].pc = "ok", ![i].firstId = nextId,
                            ![i].orphan = FALSE]
          /\ IF Mounted(imports[i])
             THEN step' = [step EXCEPT ![imports[i].session] = "success"]
             ELSE UNCHANGED step
          /\ UNCHANGED errorMsg
          /\ batches' = batches \cup {<<nextId, Len(imports[i].batch)>>}
       \/ /\ Catch(i)
          /\ store' = store \cup imports[i].prior
          /\ UNCHANGED <<nextId, batches>>
    /\ UNCHANGED <<files, open, inst, roundId, parsedRows, headers, reading>>
    /\ UNCHANGED <<dashVars, viewVars, editVars, clears, logVars, tableVars>>

\* two records for one driver of one round
SameKey(a, b) == a.round_id = b.round_id /\ a.driver_id = b.driver_id

\* StoreAccepts of a table without a constraint
StoreAccepts_Any(st, batch) == TRUE

\* A table with the unique constraint on (round_id, driver_id) takes a
\* batch when no record of it has the round and driver of another record of
\* it or of a row of the table.
StoreAccepts(st, batch) ==
    /\ \A i, j \in 1..Len(batch) : i # j => ~SameKey(batch[i], batch[j])
    /\ \A i \in 1..Len(batch) : \A row \in st : ~SameKey(batch[i], row)

\* The insert answers.  Without error every record of the batch is a row,
\* setStep('success') and the timer of onImportSuccess is set; with
\* insertError the call ends in catch and no record of the batch is a row.
InsertReturn(i) ==
    /\ imports[i].pc = "insert"
    /\ \/ /\ nextId <= MaxId
          /\ store' = StoreInsert(store, imports[i].batch, nextId)
          /\ nextId' = nextId + Len(imports[i].batch)
          /\ imports' = [Disturb(i, imports[i].roundId) EXCEPT
                            ![i].pc = "ok", ![i].firstId = nextId,
                            ![i].orphan = FALSE]
          /\ IF Mounted(imports[i])
             THEN step' = [step EXCEPT ![imports[i].session] = "success"]
             ELSE UNCHANGED step
          /\ UNCHANGED errorMsg
          /\ batches' = batches \cup {<<nextId, Len(imports[i].batch)>>}
       \/ /\ Catch(i)
          /\ UNCHANGED <<store, nextId, batches>>
    /\ UNCHANGED <<files, open, inst, roundId, parsedRows, headers, reading>>
    /\ UNCHANGED <<dashVars, viewVars, editVars, clears, logVars, tableVars>>

\* InsertReturn on a table with the unique constraint: the insert of a batch
\* the table does not take answers with insertError
InsertReturnUnique(i) ==
    /\ InsertReturn(i)
    /\ imports'[i].pc = "ok" => StoreAccepts(store, imports[i].batch)

\* ------------------------------------------------------------------------
\* Dashboard: mounting and unmounting the modal
\* ------------------------------------------------------------------------
\* setIsImportModalOpen(false): the component and its state are gone
Unmount(s) ==
    /\ open' = [open EXCEPT ![s] = FALSE]
    /\ roundId' = [roundId EXCEPT ![s] = NoRound]
    /\ step' = [step EXCEPT ![s] = "upload"]
    /\ parsedRows' = [parsedRows EXCEPT ![s] = <<>>]
    /\ headers' = [headers EXCEPT ![s] = <<>>]
    /\ errorMsg' = [errorMsg EXCEPT ![s] = Null]
    /\ reading' = [reading EXCEPT ![s] = {}]

\* The timer set by a successful import fires: onImportSuccess closes the
\* modal, bumps refreshKey, which runs the effect that calls fetchRankings
\* when a round is selected, and calls addLog.
TimerFire(i) ==
    /\ imports[i].pc = "ok"
    /\ imports' = [imports EXCEPT ![i].pc = "done"]
    /\ Unmount(imports[i].session)
    /\ Refresh(imports[i].session)
    /\ AddLog(imports[i].session)
    /\ UNCHANGED <<files, store, nextId, inst, selectedRoundId, dynamicColumns,
                   drivers>>
    /\ UNCHANGED <<viewVars, editVars, clears, logTable, logs, tableVars, batches>>

\* the close button of the modal: onClose
Close(s) ==
    /\ open[s]
    /\ Unmount(s)
    /\ UNCHANGED <<files, store, nextId, inst, imports>>
    /\ UNCHANGED <<dashVars, sideVars>>

\* the import button of the dashboard with round r selected: a new instance
\* of the modal in its initial state
Open(s, r) ==
    /\ NoOverlay(s) /\ selectedRoundId[s] = r
    /\ inst[s] < MaxOpens
    /\ open' = [open EXCEPT ![s] = TRUE]
    /\ inst' = [inst EXCEPT ![s] = @ + 1]
    /\ roundId' = [roundId EXCEPT ![s] = r]
    /\ UNCHANGED <<files, store, nextId, step, parsedRows, headers, errorMsg,
                   reading, imports>>
    /\ UNCHANGED <<dashVars, sideVars>>

\* The select of a fetchRankings call of session s for round r answers.
\* With an error the view stays as it is; with the rows of round r, ordered
\* by rank, the columns and the drivers are set from them.
fetchRankings(s, r) ==
    /\ fetching[s][r] > 0
    /\ fetching' = [fetching EXCEPT ![s][r] = @ - 1]
    /\ \/ /\ UNCHANGED <<dynamicColumns, drivers, viewOf>>
          /\ lastOk' = [lastOk EXCEPT ![s][r] = FALSE]
       \/ LET data == RoundRecords(store, r)
          IN  /\ IF metadataRows(data) = {}
                 THEN dynamicColumns' = [dynamicColumns EXCEPT ![s] = NoColumns]
                 ELSE \E m \in metadataRows(data) :
                        dynamicColumns' = [dynamicColumns EXCEPT ![s] = currentDynamicCols(m)]
              /\ \E o \in RankOrders(realData(data)) :
                    drivers' = [drivers EXCEPT ![s] =
                                    [k \in 1..Len(o) |-> mappedDriver(o[k])]]
              /\ viewOf' = [viewOf EXCEPT ![s] = r]
              /\ lastOk' = [lastOk EXCEPT ![s][r] = TRUE]
    /\ UNCHANGED <<files, store, nextId, modalVars, imports, selectedRoundId>>
    /\ UNCHANGED <<editVars, clears, logVars, tableVars, batches>>

\* handleSelectRound(r) from the sidebar: the effect on [selectedRoundId]
\* calls fetchRankings for r; a DriverTable that was not there is mounted
\* in its initial state
SelectRound(s, r) ==
    /\ NoOverlay(s) /\ r # selectedRoundId[s]
    /\ selectedRoundId' = [selectedRoundId EXCEPT ![s] = r]
    /\ fetching' = [fetching EXCEPT ![s][r] = IF @ = MaxFetches THEN @ ELSE @ + 1]
    /\ UNCHANGED <<files, store, nextId, modalVars, imports, dynamicColumns, drivers>>
    /\ UNCHANGED sideVars

\* onGoHome of the header: setSelectedRoundId(null); the DriverTable and its
\* state are gone
GoHome(s) ==
    /\ NoOverlay(s) /\ selectedRoundId[s] # NoRound
    /\ selectedRoundId' = [selectedRoundId EXCEPT ![s] = NoRound]
    /\ searchQuery' = [searchQuery EXCEPT ![s] = ""]
    /\ currentPage' = [currentPage EXCEPT ![s] = 1]
    /\ UNCHANGED <<files, store, nextId, modalVars, imports, fetching, dynamicColumns,
                   drivers>>
    /\ UNCHANGED <<viewVars, editVars, clears, logVars, batches>>

\* ------------------------------------------------------------------------
\* Dashboard: handleClearData
\* ------------------------------------------------------------------------
\* the clear button of the table, confirmed: the delete of the selected
\* round is sent
ClearData(s) ==
    /\ NoOverlay(s) /\ selectedRoundId[s] # NoRound
    /\ clears[s][selectedRoundId[s]] < MaxClears
    /\ clears' = [clears EXCEPT ![s][selectedRoundId[s]] = @ + 1]
    /\ UNCHANGED <<files, store, nextId, modalVars, imports, dashVars>>
    /\ UNCHANGED <<viewVars, editVars, logVars, tableVars, batches>>

\* The delete of handleClearData answers: without error the rows of the
\* round are gone, refreshKey is bumped and addLog is called; with an error
\* nothing but a toast.
ClearReturn(s, r) ==
    /\ clears[s][r] > 0
    /\ clears' = [clears EXCEPT ![s][r] = @ - 1]
    /\ \/ /\ store' = StoreDelete(store, r)
          /\ imports' = Disturb(0, r)
          /\ Refresh(s)
          /\ AddLog(s)
       \/ UNCHANGED <<store, imports, fetching, fetchLogs, addLogs>>
    /\ UNCHANGED <<files, nextId, modalVars, selectedRoundId, dynamicColumns, drivers>>
    /\ UNCHANGED <<viewVars, editVars, logTable, logs, tableVars, batches>>

\* ------------------------------------------------------------------------
\* EditDriverModal and handleUpdateDriver
\* ------------------------------------------------------------------------
\* the edit button of a row of the table: setEditingDriver(driver), and the
\* effect of the mounted modal fills the form
OpenEdit(s, d) ==
    /\ NoOverlay(s) /\ selectedRoundId[s] # NoRound
    /\ \E k \in 1..Len(paginatedDrivers(drivers[s], searchQuery[s], currentPage[s])) :
            d = paginatedDrivers(drivers[s], searchQuery[s], currentPage[s])[k]
    /\ editingDriver' = [editingDriver EXCEPT ![s] = d]
    /\ formData' = [formData EXCEPT ![s] = initialData(d)]
    /\ loading' = [loading EXCEPT ![s] = FALSE]
    /\ UNCHANGED <<files, store, nextId, modalVars, imports, dashVars>>
    /\ UNCHANGED <<viewVars, updates, clears, logVars, tableVars, batches>>

\* the inputs of the form of session s that do not hold what the effect put
\* there
Changed(s) ==
    {i \in 1..Len(formData[s]) : formData[s][i] # initialData(editingDriver[s])[i]}

\* typing into the input of a key of the form
HandleChange(s, key, value) ==
    /\ editingDriver[s] # NoDriver
    /\ \E i \in 1..Len(formData[s]) : formData[s][i].k = key
    /\ Cardinality(Changed(s)) < MaxChanges
    /\ formData' = [formData EXCEPT ![s] = handleChange(@, key, value)]
    /\ UNCHANGED <<files, store, nextId, modalVars, imports, dashVars>>
    /\ UNCHANGED <<viewVars, editingDriver, loading, updates, clears, logVars,
                   tableVars, batches>>

\* onClose: the close and cancel buttons of the modal
CloseEdit(s) ==
    /\ editingDriver[s] # NoDriver
    /\ editingDriver' = [editingDriver EXCEPT ![s] = NoDriver]
    /\ formData' = [formData EXCEPT ![s] = <<>>]
    /\ loading' = [loading EXCEPT ![s] = FALSE]
    /\ UNCHANGED <<files, store, nextId, modalVars, imports, dashVars>>
    /\ UNCHANGED <<viewVars, updates, clears, logVars, tableVars, batches>>

\* handleSubmit up to the await: setLoading(true), and handleUpdateDriver
\* sends the update of the row with the id of the driver
SubmitEdit(s) ==
    /\ editingDriver[s] # NoDriver /\ ~loading[s]
    /\ LET u == UpdateRequest(s, updatedDriver(editingDriver[s], formData[s]))
       IN  /\ u \notin updates /\ Cardinality(updates) < MaxUpdates
           /\ updates' = updates \cup {u}
    /\ loading' = [loading EXCEPT ![s] = TRUE]
    /\ UNCHANGED <<files, store, nextId, modalVars, imports, dashVars>>
    /\ UNCHANGED <<viewVars, editingDriver, formData, clears, logVars, tableVars,
                   batches>>

\* the calls on the rounds rs are no sole writers any more
DisturbRounds(rs) ==
    [j \in ImportIds |->
        IF imports[j].roundId \in rs /\ imports[j].pc # "free"
        THEN [imports[j] EXCEPT !.sole = FALSE] ELSE imports[j]]

\* The update answers.  Without error the row with the id, if there is one,
\* has the new rank, points and display_races, addLog is called and
\* refreshKey is bumped; with an error nothing but a toast.  Then
\* handleSubmit goes on: onClose().
UpdateReturn(u) ==
    /\ u \in updates
    /\ updates' = updates \ {u}
    /\ \/ /\ store' = StoreUpdate(store, u)
          /\ imports' = DisturbRounds({row.round_id :
                            row \in {x \in store : ToString(x.id) = u.id}})
          /\ Refresh(u.session)
          /\ AddLog(u.session)
       \/ UNCHANGED <<store, imports, fetching, fetchLogs, addLogs>>
    /\ editingDriver' = [editingDriver EXCEPT ![u.session] = NoDriver]
    /\ formData' = [formData EXCEPT ![u.session] = <<>>]
    /\ loading' = [loading EXCEPT ![u.session] = FALSE]
    /\ UNCHANGED <<files, nextId, modalVars, selectedRoundId, dynamicColumns, drivers>>
    /\ UNCHANGED <<viewVars, clears, logTable, logs, tableVars, batches>>

\* ------------------------------------------------------------------------
\* Dashboard: addLog and fetchLogs
\* ------------------------------------------------------------------------
\* AddLogReturn for an insert that is part of the write it reports: on its
\* error the rows of the selected round are taken back
AddLogReturn_Undo(s) ==
    /\ addLogs[s] > 0
    /\ addLogs' = [addLogs EXCEPT ![s] = @ - 1]
    /\ \/ /\ logTable < MaxLogRows
          /\ logTable' = logTable + 1
          /\ fetchLogs' = [fetchLogs EXCEPT ![s] = IF @ = MaxLogs THEN @ ELSE @ + 1]
          /\ UNCHANGED store
       \/ /\ store' = StoreDelete(store, selectedRoundId[s])
          /\ UNCHANGED <<logTable, fetchLogs>>
    /\ UNCHANGED <<files, nextId, modalVars, imports, dashVars>>
    /\ UNCHANGED <<viewVars, editVars, clears, logs, tableVars, batches>>

\* The insert of addLog answers: without error fetchLogs is called; an error
\* is caught and logged to the console.
AddLogReturn(s) ==
    /\ addLogs[s] > 0
    /\ addLogs' = [addLogs EXCEPT ![s] = @ - 1]
    /\ \/ /\ logTable < MaxLogRows
          /\ logTable' = logTable + 1
          /\ fetchLogs' = [fetchLogs EXCEPT ![s] = IF @ = MaxLogs THEN @ ELSE @ + 1]
       \/ UNCHANGED <<logTable, fetchLogs>>
    /\ UNCHANGED <<files, store, nextId, modalVars, imports, dashVars>>
    /\ UNCHANGED <<viewVars, editVars, clears, logs, tableVars, batches>>

\* The select of fetchLogs answers: without error setLogs of the newest
\* rows, at most LogLimit; an error is caught and logged to the console.
FetchLogsReturn(s) ==
    /\ fetchLogs[s] > 0
    /\ fetchLogs' = [fetchLogs EXCEPT ![s] = @ - 1]
    /\ \/ logs' = [logs EXCEPT ![s] = IF logTable < LogLimit THEN logTable ELSE LogLimit]
       \/ UNCHANGED logs
    /\ UNCHANGED <<files, store, nextId, modalVars, imports, dashVars>>
    /\ UNCHANGED <<viewVars, editVars, clears, addLogs, logTable, tableVars, batches>>

\* ------------------------------------------------------------------------
\* DriverTable: the search box and the page buttons
\* ------------------------------------------------------------------------
\* the table of session s is mounted and no modal lies over it
TableShown(s) == NoOverlay(s) /\ selectedRoundId[s] # NoRound

\* onChange of the search box
Search(s, q) ==
    /\ TableShown(s) /\ q # searchQuery[s]
    /\ searchQuery' = [searchQuery EXCEPT ![s] = q]
    /\ currentPage' = [currentPage EXCEPT ![s] = 1]
    /\ UNCHANGED <<files, store, nextId, modalVars, imports, dashVars>>
    /\ UNCHANGED <<viewVars, editVars, clears, logVars, batches>>

\* the previous button, disabled on page 1
PrevPage(s) ==
    /\ TableShown(s) /\ currentPage[s] # 1
    /\ currentPage' = [currentPage EXCEPT ![s] = IF @ - 1 < 1 THEN 1 ELSE @ - 1]
    /\ UNCHANGED <<files, store, nextId, modalVars, imports, dashVars>>
    /\ UNCHANGED <<viewVars, editVars, clears, logVars, searchQuery, batches>>

\* the next button, disabled on the last page and when there is no page
NextPage(s) ==
    /\ TableShown(s)
    /\ LET total == totalPages(drivers[s], searchQuery[s])
       IN  /\ currentPage[s] # total /\ total # 0
           /\ currentPage' = [currentPage EXCEPT ![s] =
                                IF @ + 1 < total THEN @ + 1 ELSE total]
    /\ UNCHANGED <<files, store, nextId, modalVars, imports, dashVars>>
    /\ UNCHANGED <<viewVars, editVars, clears, logVars, searchQuery, batches>>

\* ------------------------------------------------------------------------
\* Specifications
\* ------------------------------------------------------------------------
InitModal ==
    /\ step = [s \in Sessions |-> "upload"]
    /\ parsedRows = [s \in Sessions |-> <<>>]
    /\ headers = [s \in Sessions |-> <<>>]
    /\ errorMsg = [s \in Sessions |-> Null]
    /\ reading = [s \in Sessions |-> {}]
    /\ imports = [i \in ImportIds |-> FreeImport]
    /\ dynamicColumns = [s \in Sessions |-> NoColumns]
    /\ drivers = [s \in Sessions |-> <<>>]
    /\ viewOf = [s \in Sessions |-> NoRound]
    /\ lastOk = [s \in Sessions |-> [r \in Rounds |-> FALSE]]
    /\ editingDriver = [s \in Sessions |-> NoDriver]
    /\ formData = [s \in Sessions |-> <<>>]
    /\ loading = [s \in Sessions |-> FALSE]
    /\ updates = {}
    /\ clears = [s \in Sessions |-> [r \in Rounds |-> 0]]
    /\ addLogs = [s \in Sessions |-> 0]
    /\ fetchLogs = [s \in Sessions |-> 0]
    /\ logTable = 0
    /\ logs = [s \in Sessions |-> 0]
    /\ searchQuery = [s \in Sessions |-> ""]
    /\ currentPage = [s \in Sessions |-> 1]

\* One mounted modal, with or without a round, over a table that holds an
\* earlier import; the user has one file, any of Files.
Init ==
    /\ files \in {[s \in Sessions |-> IF s = 1 THEN {f} ELSE {}] : f \in Files}
    /\ store = PriorStore /\ nextId = PriorNextId
    /\ open = [s \in Sessions |-> s = 1]
    /\ inst = [s \in Sessions |-> IF s = 1 THEN 1 ELSE 0]
    /\ roundId \in {[s \in Sessions |-> IF s = 1 THEN r ELSE NoRound] :
                        r \in {"R1", NoRound}}
    /\ selectedRoundId = roundId
    /\ fetching = [s \in Sessions |-> [r \in Rounds |-> IF roundId[s] = r THEN 1 ELSE 0]]
    /\ batches = PriorBatches
    /\ InitModal

Next ==
    \/ \E f \in files[1] : ProcessFileStart(1, f)
    \/ \E f \in files[1] : ProcessFileDone(1, f)
    \/ ReUpload(1)
    \/ HandleImport(1)
    \/ \E i \in ImportIds : DeleteReturn(i)
    \/ \E i \in ImportIds : InsertReturn(i)
    \/ \E i \in ImportIds : TimerFire(i)
    \/ \E r \in Rounds : fetchRankings(1, r)

Spec == Init /\ [][Next]_vars

\* Spec with the timers of setTimeout: a timer that is set fires
SpecTimers == Spec /\ \A i \in ImportIds : WF_vars(TimerFire(i))

\* One mounted modal on round R1 whose user has two files and can pick the
\* second while the first is still being read.
SheetHeaderOnly == <<<<Str("Rank"), Str("Foo")>>>>
PairFiles == {Workbook(SheetA), Workbook(SheetB), Workbook(SheetHeaderOnly)}

InitFiles ==
    /\ files \in {[s \in Sessions |-> IF s = 1 THEN {f, g} ELSE {}] :
                    f, g \in PairFiles}
    /\ Cardinality(files[1]) = 2
    /\ store = PriorStore /\ nextId = PriorNextId
    /\ open = [s \in Sessions |-> s = 1]
    /\ inst = [s \in Sessions |-> IF s = 1 THEN 1 ELSE 0]
    /\ roundId = [s \in Sessions |-> IF s = 1 THEN "R1" ELSE NoRound]
    /\ selectedRoundId = roundId
    /\ fetching = [s \in Sessions |-> [r \in Rounds |-> IF roundId[s] = r THEN 1 ELSE 0]]
    /\ batches = PriorBatches
    /\ InitModal

SpecFiles == InitFiles /\ [][Next]_vars

\* One session of the dashboard that goes from round to round, searches and
\* pages through the table and clears rounds; R1 holds an earlier import of
\* SheetA, R2 one of a sheet with one row more than a page of the table.
BigSheet ==
    <<<<Str("Rank"), Str("Name")>>>>
    \o [i \in 1..(itemsPerPage + 1) |-> <<Num(i), Str("D" \o ToString(i))>>]
BigBatch ==
    allRecords(metadataRecord("R2", cleanHeaders(Head(BigSheet))),
               dataRecords("R2", sheet_to_json(BigSheet),
                           [i \in 1..(itemsPerPage + 1) |-> ""]))
Queries == {"", "d1", "zz"}

InitView ==
    /\ files = [s \in Sessions |-> {}]
    /\ store = StoreInsert(StoreInsert({}, PriorBatch("R1"), 1),
                           BigBatch, 1 + Len(PriorBatch("R1")))
    /\ nextId = 1 + Len(PriorBatch("R1")) + Len(BigBatch)
    /\ batches = {<<1, Len(PriorBatch("R1"))>>,
                  <<1 + Len(PriorBatch("R1")), Len(BigBatch)>>}
    /\ open = [s \in Sessions |-> FALSE]
    /\ inst = [s \in Sessions |-> 0]
    /\ roundId = [s \in Sessions |-> NoRound]
    /\ selectedRoundId = [s \in Sessions |-> IF s = 1 THEN "R1" ELSE NoRound]
    /\ fetching = [s \in Sessions |-> [r \in Rounds |->
                        IF selectedRoundId[s] = r THEN 1 ELSE 0]]
    /\ InitModal

NextView ==
    \/ \E r \in Rounds : SelectRound(1, r)
    \/ GoHome(1)
    \/ \E r \in Rounds : fetchRankings(1, r)
    \/ \E q \in Queries : Search(1, q)
    \/ PrevPage(1)
    \/ NextPage(1)
    \/ ClearData(1)
    \/ \E r \in Rounds : ClearReturn(1, r)

SpecView == InitView /\ [][NextView]_vars

\* One session of the dashboard on round R1, which holds an earlier import
\* of SheetA: its user edits the rank of drivers and imports SheetB, leaving
\* the import modal open until its timer closes it.
EditKeys == {"rank"}
EditValues == {"7"}

InitEdit ==
    /\ files = [s \in Sessions |-> IF s = 1 THEN {Workbook(SheetB)} ELSE {}]
    /\ store = PriorStore /\ nextId = PriorNextId
    /\ batches = PriorBatches
    /\ open = [s \in Sessions |-> FALSE]
    /\ inst = [s \in Sessions |-> IF s = 1 THEN MaxOpens - 1 ELSE 0]
    /\ roundId = [s \in Sessions |-> NoRound]
    /\ selectedRoundId = [s \in Sessions |-> IF s = 1 THEN "R1" ELSE NoRound]
    /\ fetching = [s \in Sessions |-> [r \in Rounds |->
                        IF selectedRoundId[s] = r THEN 1 ELSE 0]]
    /\ InitModal

NextEdit ==
    \/ Open(1, "R1")
    \/ \E f \in files[1] : ProcessFileStart(1, f)
    \/ \E f \in files[1] : ProcessFileDone(1, f)
    \/ HandleImport(1)
    \/ \E i \in ImportIds : DeleteReturn(i)
    \/ \E i \in ImportIds : InsertReturn(i)
    \/ \E i \in ImportIds : TimerFire(i)
    \/ \E r \in Rounds : fetchRankings(1, r)
    \/ \E k \in 1..Len(drivers[1]) : OpenEdit(1, drivers[1][k])
    \/ \E key \in EditKeys : \E v \in EditValues : HandleChange(1, key, v)
    \/ CloseEdit(1)
    \/ SubmitEdit(1)
    \/ \E u \in updates : UpdateReturn(u)

SpecEdit == InitEdit /\ [][NextEdit]_vars

\* Two sessions of the dashboard, both with round R1 selected, each opening
\* and closing the modal; the table holds an earlier import into round R2;
\* each user has one small file.  The specification follows the writes to
\* the table: the reads of fetchRankings are left to Spec.
InitConc ==
    /\ files = [s \in Sessions |-> {SmallFile(s)}]
    /\ store = StoreInsert({}, PriorBatch("R2"), 1)
    /\ nextId = 1 + Len(PriorBatch("R2"))
    /\ open = [s \in Sessions |-> FALSE]
    /\ inst = [s \in Sessions |-> 0]
    /\ roundId = [s \in Sessions |-> NoRound]
    /\ selectedRoundId = [s \in Sessions |-> "R1"]
    /\ fetching = [s \in Sessions |-> [r \in Rounds |-> 0]]
    /\ batches = {<<1, Len(PriorBatch("R2"))>>}
    /\ InitModal

NextConc ==
    \/ \E s \in Sessions : Open(s, "R1")
    \/ \E s \in Sessions : Close(s)
    \/ \E s \in Sessions : \E f \in files[s] : ProcessFileStart(s, f)
    \/ \E s \in Sessions : \E f \in files[s] : ProcessFileDone(s, f)
    \/ \E s \in Sessions : ReUpload(s)
    \/ \E s \in Sessions : HandleImport(s)
    \/ \E i \in ImportIds : DeleteReturn(i)
    \/ \E i \in ImportIds : InsertReturn(i)
    \/ \E i \in ImportIds : TimerFire(i)

SpecConc == InitConc /\ [][NextConc]_vars

\* One session of the dashboard that opens and closes the modal, over a
\* store whose every call is answered.
NextSolo ==
    \/ Open(1, "R1")
    \/ Close(1)
    \/ \E f \in files[1] : ProcessFileStart(1, f)
    \/ \E f \in files[1] : ProcessFileDone(1, f)
    \/ ReUpload(1)
    \/ HandleImport(1)
    \/ \E i \in ImportIds : DeleteReturn(i)
    \/ \E i \in ImportIds : InsertReturn(i)
    \/ \E i \in ImportIds : TimerFire(i)
    \/ \E r \in Rounds : fetchRankings(1, r)

SpecReturns ==
    /\ InitConc /\ [][NextSolo]_vars
    /\ \A i \in ImportIds : WF_vars(DeleteReturn(i)) /\ WF_vars(InsertReturn(i))

\* Two sessions on round R1 of a table with the unique constraint on
\* (round_id, driver_id); R1 holds an earlier import of SheetA.  Both import
\* a sheet; session 1 also saves the form of the first driver of its list
\* and clears the round.
InitUnique ==
    /\ files = [s \in Sessions |-> {SmallFile(s)}]
    /\ store = StoreInsert({}, PriorBatch("R1"), 1)
    /\ nextId = 1 + Len(PriorBatch("R1"))
    /\ batches = {<<1, Len(PriorBatch("R1"))>>}
    /\ open = [s \in Sessions |-> FALSE]
    /\ inst = [s \in Sessions |-> MaxOpens - 1]
    /\ roundId = [s \in Sessions |-> NoRound]
    /\ selectedRoundId = [s \in Sessions |-> "R1"]
    /\ fetching = [s \in Sessions |-> [r \in Rounds |->
                        IF s = 1 /\ r = "R1" THEN 1 ELSE 0]]
    /\ InitModal

NextUnique ==
    \/ \E s \in Sessions : Open(s, "R1")
    \/ \E s \in Sessions : \E f \in files[s] : ProcessFileStart(s, f)
    \/ \E s \in Sessions : \E f \in files[s] : ProcessFileDone(s, f)
    \/ \E s \in Sessions : HandleImport(s)
    \/ \E i \in ImportIds : DeleteReturn(i)
    \/ \E i \in ImportIds : InsertReturnUnique(i)
    \/ \E r \in Rounds : fetchRankings(1, r)
    \/ \E k \in {1} \cap DOMAIN drivers[1] : OpenEdit(1, drivers[1][k])
    \/ SubmitEdit(1)
    \/ \E u \in updates : UpdateReturn(u)
    \/ ClearData(1)
    \/ \E r \in Rounds : ClearReturn(1, r)

SpecUnique == InitUnique /\ [][NextUnique]_vars

\* The single session of NextSolo with the answers of the requests of
\* addLog and fetchLogs.
NextLogs ==
    \/ NextSolo
    \/ AddLogReturn(1)
    \/ FetchLogsReturn(1)

SpecLogs == InitConc /\ [][NextLogs]_vars

\* ------------------------------------------------------------------------
\* Properties
\* ------------------------------------------------------------------------
\* the batch of call i has been handed to insert
Sent(i) == imports[i].batch # <<>>

DriverIds(recs) == [k \in 1..Len(recs) |-> recs[k].driver_id]
Distinct(seq) == \A a, b \in 1..Len(seq) : a # b => seq[a] # seq[b]

\* C1: in every batch handed to insert, the driver_id values are pairwise
\* distinct, the '__METADATA__' of the schema record counted with those of
\* the data records.
C1_BatchIdsDistinct ==
    \A i \in ImportIds : Sent(i) => Distinct(DriverIds(imports[i].batch))

\* the rows the table holds for the batch of call i once its insert succeeded
StoredBatch(i) ==
    {Stored(imports[i].batch[k], imports[i].firstId + k - 1) :
        k \in 1..Len(imports[i].batch)}

\* C2: after a successful import into round R, with no other writer on R
\* since the import began, the table holds for R the one schema record and
\* the data records of that batch, one row each, and no row that R held
\* before.
C2_ReplaceSemantics ==
    \A i \in ImportIds :
        (imports[i].pc \in {"ok", "done"} /\ imports[i].sole) =>
            LET now == RoundRecords(store, imports[i].roundId)
            IN  /\ now = StoredBatch(i)
                /\ Cardinality(now) = 1 + Len(imports[i].rows)
                /\ Cardinality({rec \in now :
                        rec.display_races = imports[i].meta.display_races}) = 1
                /\ now \cap imports[i].prior = {}

\* session 1 has imported its file into R1 a second time: the round held
\* the rows of its first import when the second began
C2_Witness ==
    \E i \in ImportIds :
        /\ imports[i].pc = "ok" /\ imports[i].sole /\ imports[i].session = 1
        /\ \E rec \in imports[i].prior : rec.driver_id = "Alice"
        /\ RoundRecords(store, "R1") = StoredBatch(i)

\* call i ends in its catch branch in this step
Fails(i) == imports[i].pc \in {"delete", "insert"} /\ imports'[i].pc = "failed"

\* C3 as stated: a failed import leaves the round as it was when the import
\* began, or without rows.
C3_AsStated ==
    [][\A i \in ImportIds :
          Fails(i) =>
              RoundRecords(store', imports[i].roundId) \in {imports[i].prior, {}}]_vars

\* C3 (amended): a failed import, with no other writer on the round while it
\* ran, leaves the round as it was when the import began, or without rows.
C3_FailedImport ==
    [][\A i \in ImportIds :
          (Fails(i) /\ imports[i].sole) =>
              RoundRecords(store', imports[i].roundId) \in {imports[i].prior, {}}]_vars

\* an import whose delete emptied the round and whose insert failed
C3_Witness ==
    \E i \in ImportIds :
        /\ imports[i].pc = "failed" /\ imports[i].sole /\ Sent(i)
        /\ imports[i].prior # {}
        /\ RoundRecords(store, imports[i].roundId) = {}

\* C4: the batch holds the schema record and then one data record per parsed
\* row, the k-th made from the k-th row: its payload is that row, and it is
\* the record built for that row but for the driver_id.
C4_NoRowDropped ==
    \A i \in ImportIds : Sent(i) =>
        /\ Len(imports[i].batch) = 1 + Len(imports[i].rows)
        /\ \A k \in 1..Len(imports[i].rows) :
            /\ imports[i].batch[k + 1].display_races = JSONstringifyRow(imports[i].rows[k])
            /\ imports[i].batch[k + 1] =
                 [imports[i].data[k] EXCEPT !.driver_id = imports[i].batch[k + 1].driver_id]

\* a batch of three rows of which a later one was renamed
C4_Witness ==
    \E i \in ImportIds :
        /\ Sent(i) /\ Len(imports[i].rows) = 3
        /\ imports[i].batch[4].driver_id # imports[i].data[3].driver_id

\* the name X_<n>
Renamed(id, n) == id \o "_" \o ToString(n)

\* the keys stored before the k-th data record
KeysBefore(batch, k) == {batch[j + 1].driver_id : j \in 1..(k - 1)}

\* The general rule of C5: a row whose identity X is already a key is stored
\* as X_<n>, n the least positive integer with X_<n> not yet a key, and a row
\* whose identity is no key yet is stored as X.
LeastFreeName(data, batch) ==
    \A k \in 1..Len(data) :
        LET X == data[k].driver_id
            keys == KeysBefore(batch, k)
        IN  IF X \notin keys THEN batch[k + 1].driver_id = X
            ELSE \E c \in 1..Len(data) :
                    /\ batch[k + 1].driver_id = Renamed(X, c)
                    /\ Renamed(X, c) \notin keys
                    /\ \A d \in 1..(c - 1) : Renamed(X, d) \in keys

\* the rows that resolve to X are stored as X, X_1, X_2, ... in their order
StoredInOrder(data, batch, k) ==
    LET X == data[k].driver_id
        earlier == Cardinality({j \in 1..(k - 1) : data[j].driver_id = X})
    IN  batch[k + 1].driver_id = IF earlier = 0 THEN X ELSE Renamed(X, earlier)

\* C5 as stated: the rule above, and the rows that resolve to X are stored
\* as X, X_1, ..., X_(k-1) whenever no other row resolves to X or to X_<n>.
C5_AsStated ==
    \A i \in ImportIds : Sent(i) =>
        LET data == imports[i].data
            batch == imports[i].batch
        IN  /\ Len(batch) = 1 + Len(data)
            /\ LeastFreeName(data, batch)
            /\ \A k \in 1..Len(data) :
                (\A j, c \in 1..Len(data) :
                    data[j].driver_id # Renamed(data[k].driver_id, c))
                => StoredInOrder(data, batch, k)

\* C5 (amended): the rule above, and the rows that resolve to X are stored
\* as X, X_1, ..., X_(k-1) whenever no other row resolves to, or is renamed
\* to, X or X_<n>.
C5_DedupNaming ==
    \A i \in ImportIds : Sent(i) =>
        LET data == imports[i].data
            batch == imports[i].batch
        IN  /\ Len(batch) = 1 + Len(data)
            /\ LeastFreeName(data, batch)
            /\ \A k \in 1..Len(data) :
                (\A j \in 1..Len(data) :
                    data[j].driver_id # data[k].driver_id =>
                        /\ batch[j + 1].driver_id # data[k].driver_id
                        /\ \A c \in 1..Len(data) :
                            /\ data[j].driver_id # Renamed(data[k].driver_id, c)
                            /\ batch[j + 1].driver_id # Renamed(data[k].driver_id, c))
                => StoredInOrder(data, batch, k)

\* three rows that resolve to Bob, stored as Bob, Bob_1, Bob_2
C5_Witness ==
    \E i \in ImportIds :
        /\ Sent(i)
        /\ DriverIds(imports[i].data) = <<"Bob", "Bob", "Bob">>
        /\ DriverIds(imports[i].batch) = <<METADATA, "Bob", "Bob_1", "Bob_2">>

\* C6: handleImport on a modal without roundId sets the validation error and
\* returns: no delete or insert is sent, the table is as it was, and the modal
\* stays in step 'preview'.
C6_MissingRoundGuard ==
    [][\A s \in Sessions :
          (HandleImport(s) /\ roundId[s] = NoRound) =>
              /\ errorMsg'[s] = MsgNoRound
              /\ step'[s] = "preview"
              /\ imports' = imports
              /\ store' = store /\ nextId' = nextId]_vars

\* handleImport has run on a modal without roundId
C6_Witness ==
    /\ open[1] /\ roundId[1] = NoRound
    /\ step[1] = "preview" /\ errorMsg[1] = MsgNoRound
    /\ \A i \in ImportIds : imports[i].pc = "free"

\* a sheet without rows, or with a header row and no data row that has a cell
NoDataRows(sheet) ==
    \A r \in 2..Len(sheet) : \A c \in 1..Len(sheet[r]) : sheet[r][c].t = "empty"

\* C7: processFile on a sheet without rows, or with a header row and no data
\* rows, reports the error, leaves step, headers and parsedRows as they were
\* and touches neither the table nor any import; and in step 'preview'
\* parsedRows is never empty.
C7_EmptyInputRejected ==
    /\ [](\A s \in Sessions : (open[s] /\ step[s] = "preview") => parsedRows[s] # <<>>)
    /\ [][\A s \in Sessions : \A f \in files[s] :
            (ProcessFileDone(s, f) /\ f.valid /\ NoDataRows(f.sheet)) =>
                /\ errorMsg'[s] = IF f.sheet = <<>> THEN MsgEmptyFile ELSE MsgNoRows
                /\ step'[s] = step[s]
                /\ headers'[s] = headers[s]
                /\ parsedRows'[s] = parsedRows[s]
                /\ imports' = imports
                /\ store' = store /\ nextId' = nextId]_vars

\* processFile has rejected a sheet that has a header row only
C7_Witness ==
    /\ open[1] /\ step[1] = "upload" /\ errorMsg[1] = MsgNoRows
    /\ \E f \in files[1] : Len(f.sheet) = 1
    /\ parsedRows[1] = <<>>

\* the entries of a row whose header, trimmed, names the role
RoleEntries(row, role) == SelectSeq(row, LAMBDA e : ESSENTIAL_MAP(trim(e.k)) = role)

\* a cell that reads as a number: a number, or a string of decimal digits
\* with blanks around it
ParsesAsNumber(v) ==
    \/ v.t = "num"
    \/ v.t = "str" /\ trim(v.s) # "" /\ AllDigits(trim(v.s))
NumericValue(v) == IF v.t = "num" THEN v.n ELSE DecimalValue(trim(v.s))

\* the value a numeric role takes from the one cell given for it
FromCell(cells, default) ==
    IF cells # <<>> /\ ParsesAsNumber(cells[1].v) THEN NumericValue(cells[1].v)
    ELSE default

\* C8: for a row with at most one header per role, rank is the number in the
\* rank cell when that cell reads as a number, and 999 otherwise; points is
\* the number in the points cell when it reads as a number, and 0 otherwise.
C8_EssentialNumbers ==
    \A i \in ImportIds : imports[i].pc # "free" =>
        \A k \in 1..Len(imports[i].rows) :
            LET rk == RoleEntries(imports[i].rows[k], "rank")
                pt == RoleEntries(imports[i].rows[k], "points")
            IN  /\ Len(rk) <= 1 => imports[i].data[k].rank = FromCell(rk, 999)
                /\ Len(pt) <= 1 => imports[i].data[k].points = FromCell(pt, 0)

\* C9: the identity resolved for a row is the string form of the cell under
\* its (last) driver header; without such a header, or when that string is
\* 'Unknown', it is 'Unknown_' and a generated suffix; and no record of a
\* batch or of the table has the identity 'Unknown'.
C9_IdentityResolution ==
    /\ \A i \in ImportIds : imports[i].pc # "free" =>
        /\ \A k \in 1..Len(imports[i].rows) :
            LET dr == RoleEntries(imports[i].rows[k], "driver_id")
                id == imports[i].data[k].driver_id
            IN  IF dr = <<>> \/ JSString(dr[Len(dr)].v) = "Unknown"
                THEN \E sfx \in Suffixes : id = "Unknown_" \o sfx
                ELSE id = JSString(dr[Len(dr)].v)
        /\ \A k \in 1..Len(imports[i].batch) : imports[i].batch[k].driver_id # "Unknown"
    /\ \A rec \in store : rec.driver_id # "Unknown"

\* a row whose driver cell reads 'Unknown' is in the table as Unknown_k
C9_Witness ==
    \E i \in ImportIds :
        /\ imports[i].pc = "ok"
        /\ \E k \in 1..Len(imports[i].rows) :
            LET dr == RoleEntries(imports[i].rows[k], "driver_id")
            IN  /\ dr # <<>> /\ dr[Len(dr)].v = Str("Unknown")
                /\ imports[i].data[k].driver_id = "Unknown_k"
                /\ \E rec \in store : rec.driver_id = "Unknown_k" /\ rec.id >= imports[i].firstId

\* a header cell that is not blank: it has a value whose text, trimmed, is
\* not empty
Significant(cell) == cell.t # "empty" /\ trim(JSString(cell)) # ""

\* C10: the headers processFile keeps are the header cells that are not
\* blank, in their order.
C10_HeaderSignificance ==
    \A s \in Sessions : \A f \in files[s] :
        (open[s] /\ step[s] = "preview") =>
            headers[s] = SelectSeq(Head(f.sheet), Significant)

\* the rows of a sheet that become parsed rows: its data rows with a cell
DataRowsOf(sheet) ==
    SelectSeq(Tail(sheet), LAMBDA r : \E c \in 1..Len(r) : r[c].t # "empty")

\* the view of session s shows the sheet of import i: the column keys are
\* the significant header cells in order, and each data row has a driver
\* whose cell under every significant header is the cell of the sheet
ShowsSheet(cols, drvs, imp, sheet) ==
    /\ cols = Columns(SelectSeq(Head(sheet), Significant))
    /\ \A k \in 1..Len(DataRowsOf(sheet)) :
            \E d \in 1..Len(drvs) :
                /\ drvs[d].id = ToString(imp.firstId + k)
                /\ \A c \in 1..Len(Head(sheet)) :
                        Significant(Head(sheet)[c]) =>
                            render(Head(sheet)[c], drvs[d]) = DataRowsOf(sheet)[k][c]

\* C11: a fetchRankings that sets the view from a round holding the rows of
\* a successful import derives the columns H, the significant headers of the
\* imported sheet in order, and renders for every data row and every column
\* of H the cell the sheet has there.
C11_SchemaRoundTrip ==
    [][\A i \in ImportIds : \A f \in files[1] :
          (/\ imports[i].pc = "done" /\ imports[i].sole /\ imports[i].session = 1
           /\ fetchRankings(1, "R1")
           /\ <<dynamicColumns[1], drivers[1]>>' # <<dynamicColumns[1], drivers[1]>>)
          => ShowsSheet(dynamicColumns'[1], drivers'[1], imports[i], f.sheet)]_vars

\* C12: for every data row of a successful import, JSON.parse of the
\* display_races of its stored record has, under every significant header of
\* the sheet, the value the parsed row has under that header.
C12_PayloadRoundTrip ==
    \A i \in ImportIds :
        (imports[i].pc \in {"ok", "done"} /\ imports[i].sole) =>
            \A f \in files[imports[i].session] : \A k \in 1..Len(imports[i].rows) :
                \E rec \in store :
                    /\ rec.id = imports[i].firstId + k
                    /\ \A c \in 1..Len(Head(f.sheet)) :
                        Significant(Head(f.sheet)[c]) =>
                            Member(JSONparseRow(rec.display_races),
                                   JSString(Head(f.sheet)[c]))
                            = Member(imports[i].rows[k], JSString(Head(f.sheet)[c]))

\* the table holds the row of Alice of the specification's example, her
\* points a number and her name a text in the payload
C12_Witness ==
    \E i \in ImportIds : \E rec \in store :
        /\ imports[i].pc = "ok" /\ rec.id = imports[i].firstId + 1
        /\ Member(JSONparseRow(rec.display_races), "jifen") = Num(25)
        /\ Member(JSONparseRow(rec.display_races), "cheshou") = Str("Alice")

\* call i has not reached its success or failure branch
InFlight(i) == imports[i].pc \in {"delete", "insert"}

\* C13: no session has two handleImport calls in flight for one round.
C13_SingleFlight ==
    \A i, j \in ImportIds :
        (i # j /\ InFlight(i) /\ InFlight(j)
            /\ imports[i].session = imports[j].session)
        => imports[i].roundId # imports[j].roundId

\* the insert of call i has been answered
Answered(i) == imports[i].pc \in {"ok", "failed", "done"}

\* the rows call i has put into the table
Inserted(imp) ==
    IF imp.pc \in {"ok", "done"}
    THEN {Stored(imp.batch[k], imp.firstId + k - 1) : k \in 1..Len(imp.batch)}
    ELSE {}

\* the calls of a and b on one round went delete-a, delete-b, insert-a and
\* the insert of b is being answered; no other call has been made
Interleaved(a, b) ==
    /\ a \in imports[b].after /\ Answered(a)
    /\ imports[b].pc = "insert" /\ InsertReturn(b)
    /\ \A c \in ImportIds \ {a, b} : imports[c].pc = "free"

\* C14: two calls on one round can go delete-A, delete-B, insert-A,
\* insert-B; the round then holds the rows of every insert that succeeded,
\* those of A together with those of B when both did, and so can end as
\* neither the batch of A alone nor the batch of B alone.
C14_NoMutualExclusion ==
    [][\A a, b \in ImportIds :
          Interleaved(a, b) =>
              RoundRecords(store', imports[b].roundId)
                = Inserted(imports[a]) \cup Inserted(imports'[b])]_vars

\* after delete-A, delete-B, insert-A, insert-B the round is neither the
\* batch of A nor the batch of B
C14_Witness ==
    \E a, b \in ImportIds :
        /\ a \in imports[b].after /\ Answered(a) /\ Answered(b)
        /\ imports[a].session # imports[b].session
        /\ RoundRecords(store, imports[b].roundId)
                \notin {Inserted([imports[a] EXCEPT !.pc = "ok"]),
                         Inserted([imports[b] EXCEPT !.pc = "ok"])}

\* C15: onImportSuccess runs for a call only after its insert was answered
\* without error, closing the modal and starting the refresh; it runs for no
\* call that failed, at most once for a call, and for every call whose
\* insert succeeded it does run.
C15_SuccessSignal ==
    /\ [][\A i \in ImportIds :
            /\ (imports'[i].pc = "done" /\ imports[i].pc # "done") =>
                    /\ imports[i].pc = "ok"
                    /\ Inserted(imports[i]) # {}
                    /\ ~open'[imports[i].session]
                    /\ Fetches(fetching', imports[i].session) > 0
            /\ imports[i].pc = "failed" => imports'[i].pc \in {"failed", "delete"}
            /\ imports[i].pc = "done" => imports'[i].pc \in {"done", "delete"}]_vars
    /\ \A i \in ImportIds : (imports[i].pc = "ok") ~> (imports[i].pc = "done")

\* onImportSuccess has run for a call whose rows are in the table: the modal
\* is closed and a refresh is under way
C15_Witness ==
    \E i \in ImportIds :
        /\ imports[i].pc = "done" /\ imports[i].sole
        /\ Inserted(imports[i]) = RoundRecords(store, imports[i].roundId)
        /\ ~open[imports[i].session] /\ Fetches(fetching, imports[i].session) > 0

\* C16 as stated: a row whose resolved identity differs from the resolved
\* identity of every earlier row is stored under that identity.
C16_AsStated ==
    \A i \in ImportIds : Sent(i) =>
        /\ Len(imports[i].batch) = 1 + Len(imports[i].data)
        /\ \A k \in 1..Len(imports[i].data) :
            (\A j \in 1..(k - 1) :
                imports[i].data[j].driver_id # imports[i].data[k].driver_id)
            => imports[i].batch[k + 1].driver_id = imports[i].data[k].driver_id

\* C16 (amended): a row whose resolved identity differs from the identity
\* every earlier row is stored under is stored under that identity.
C16_FirstOccurrence ==
    \A i \in ImportIds : Sent(i) =>
        /\ Len(imports[i].batch) = 1 + Len(imports[i].data)
        /\ \A k \in 1..Len(imports[i].data) :
            (\A j \in 1..(k - 1) :
                imports[i].batch[j + 1].driver_id # imports[i].data[k].driver_id)
            => imports[i].batch[k + 1].driver_id = imports[i].data[k].driver_id

\* a first occurrence kept as it is behind a row that was renamed
C16_Witness ==
    \E i \in ImportIds :
        /\ Sent(i)
        /\ DriverIds(imports[i].data) = <<"Bob", "Bob", "Unknown_k">>
        /\ DriverIds(imports[i].batch) = <<METADATA, "Bob", "Bob_1", "Unknown_k">>

\* C17: the insert of a call is sent only when its delete was answered
\* without error, the round then without rows; when the delete is answered
\* with an error no insert is sent, then or later, the table is as it was,
\* and the modal that made the call, if it is still there, is back in step
\* 'preview' with the error message.
C17_DeleteFailure ==
    [][\A i \in ImportIds :
          /\ (imports[i].pc # "insert" /\ imports'[i].pc = "insert") =>
                /\ imports[i].pc = "delete"
                /\ RoundRecords(store', imports[i].roundId) = {}
          /\ (imports[i].pc = "delete" /\ imports'[i].pc = "failed") =>
                /\ store' = store /\ nextId' = nextId
                /\ imports'[i].batch = <<>>
                /\ Mounted(imports[i]) =>
                        /\ step'[imports[i].session] = "preview"
                        /\ errorMsg'[imports[i].session] = MsgImportFailed
          /\ (imports[i].pc = "failed" /\ imports[i].batch = <<>>) =>
                \/ imports'[i] = imports[i]
                \/ imports'[i].pc = "delete"
                \/ imports'[i] = [imports[i] EXCEPT !.sole = FALSE]]_vars

\* a delete was answered with an error: the round holds the rows of the
\* import before, no insert was sent, the modal shows the error
C17_Witness ==
    \E i \in ImportIds :
        /\ imports[i].pc = "failed" /\ imports[i].batch = <<>>
        /\ imports[i].prior # {}
        /\ RoundRecords(store, imports[i].roundId) = imports[i].prior
        /\ Mounted(imports[i])
        /\ step[imports[i].session] = "preview"
        /\ errorMsg[imports[i].session] = MsgImportFailed

\* C18: when the insert of a call that was the only writer on its round is
\* answered with an error, the round has no row, the modal that made the
\* call, if it is still there, shows the failure, and the round stays
\* without rows until another write.
C18_InsertFailure ==
    /\ [][\A i \in ImportIds :
            (imports[i].pc = "insert" /\ imports'[i].pc = "failed" /\ imports[i].sole) =>
                /\ RoundRecords(store', imports[i].roundId) = {}
                /\ Mounted(imports[i]) =>
                        /\ step'[imports[i].session] = "preview"
                        /\ errorMsg'[imports[i].session] = MsgImportFailed]_vars
    /\ [](\A i \in ImportIds :
            (imports[i].pc = "failed" /\ Sent(i) /\ imports[i].sole) =>
                RoundRecords(store, imports[i].roundId) = {})

\* the rows of the import before are gone and the new ones did not come:
\* the modal shows the failure over a round without rows
C18_Witness ==
    \E i \in ImportIds :
        /\ imports[i].pc = "failed" /\ Sent(i) /\ imports[i].sole
        /\ \E rec \in imports[i].prior : rec.driver_id = METADATA
        /\ RoundRecords(store, imports[i].roundId) = {}
        /\ Mounted(imports[i])
        /\ step[imports[i].session] = "preview"
        /\ errorMsg[imports[i].session] = MsgImportFailed

\* C19: a call sends one delete and, after it, at most one insert, and ends
\* for good: its steps are delete, then insert or failure, then success or
\* failure, and the table changes only at the answers of its two requests;
\* an insert follows an error-free delete also when the modal was closed
\* meanwhile; at its end the modal, if still there, is in step 'success', or
\* in step 'preview' with the error; and with every request answered, every
\* call ends and no modal stays in step 'uploading'.
C19_NoRetryTerminal ==
    /\ [][\A i \in ImportIds :
            /\ imports[i].pc = "delete" => imports'[i].pc \in {"delete", "insert", "failed"}
            /\ imports[i].pc = "insert" => imports'[i].pc \in {"insert", "ok", "failed"}
            /\ imports[i].pc = "ok" => imports'[i].pc \in {"ok", "done"}
            /\ (imports[i].pc = "delete" /\ imports'[i].pc = "insert") =>
                    /\ imports'[i].batch = allRecords(imports[i].meta, imports[i].data)
                    /\ imports'[i].orphan = ~Mounted(imports[i])
            /\ (InFlight(i) /\ Answered(i)' /\ Mounted(imports[i])) =>
                    \/ /\ imports'[i].pc = "ok"
                       /\ step'[imports[i].session] = "success"
                    \/ /\ imports'[i].pc = "failed"
                       /\ step'[imports[i].session] = "preview"
                       /\ errorMsg'[imports[i].session] = MsgImportFailed]_vars
    /\ [][store' # store =>
            \E i \in ImportIds :
                \/ imports[i].pc = "delete" /\ imports'[i].pc = "insert"
                \/ imports[i].pc = "insert" /\ imports'[i].pc = "ok"]_vars
    /\ \A i \in ImportIds : InFlight(i) ~> Answered(i)
    /\ \A s \in Sessions : (step[s] = "uploading") ~> (step[s] # "uploading")

\* the modal was closed between the delete request and its answer, and the
\* insert has been sent all the same
C19_Witness ==
    \E i \in ImportIds :
        /\ imports[i].pc = "insert" /\ imports[i].orphan
        /\ imports[i].batch # <<>>
        /\ RoundRecords(store, imports[i].roundId) = {}

\* the row cut down to the last of its entries for the role
LastOnly(row, role) ==
    LET es == RoleEntries(row, role) IN <<es[Len(es)]>>

\* C20: for a row with one or more headers of a role, rank, driver_id and
\* points are what they are for the row that has only the last of those
\* headers, whatever the cells under the earlier ones hold; in particular an
\* unparseable last cell gives rank 999 and points 0.
C20_LastHeaderWins ==
    \A i \in ImportIds : imports[i].pc # "free" =>
        \A k \in 1..Len(imports[i].rows) :
            LET row == imports[i].rows[k]
                rec == imports[i].data[k]
            IN  /\ RoleEntries(row, "rank") # <<>> =>
                    /\ rec.rank = Essential(LastOnly(row, "rank")).rank
                    /\ ~ParsesAsNumber(LastOnly(row, "rank")[1].v) => rec.rank = 999
                /\ RoleEntries(row, "points") # <<>> =>
                    /\ rec.points = Essential(LastOnly(row, "points")).points
                    /\ ~ParsesAsNumber(LastOnly(row, "points")[1].v) => rec.points = 0
                /\ RoleEntries(row, "driver_id") # <<>> =>
                    \E sfx \in Suffixes :
                        rec.driver_id =
                            dataRecord(imports[i].roundId,
                                       LastOnly(row, "driver_id"), sfx).driver_id

\* a row with the number 3 under a first rank header and a text under the
\* second has rank 999
C20_Witness ==
    \E i \in ImportIds : \E k \in 1..Len(imports[i].rows) :
        LET rk == RoleEntries(imports[i].rows[k], "rank")
        IN  /\ imports[i].pc # "free" /\ Len(rk) = 2
            /\ rk[1].v = Num(3) /\ rk[2].v = Str("Unknown")
            /\ imports[i].data[k].rank = 999

\* the texts of the significant header cells of a sheet
SignificantTexts(sheet) ==
    {JSString(Head(sheet)[c]) : c \in {d \in 1..Len(Head(sheet)) : Significant(Head(sheet)[d])}}

\* the keys of a JSON document
KeysOf(doc) == {doc[m].k : m \in 1..Len(doc)}

\* C21: the columns of the schema record are significant header cells, and
\* every key of the payload of every data record is the text of a
\* significant header: no cell under a blank header is stored.
C21_BlankHeadersNoRole ==
    \A i \in ImportIds : imports[i].pc # "free" =>
        \A f \in files[imports[i].session] :
            /\ \A c \in 1..Len(imports[i].meta.display_races[1].v.a) :
                    JSString(FromJSON(imports[i].meta.display_races[1].v.a[c]))
                        \in SignificantTexts(f.sheet)
            /\ \A k \in 1..Len(imports[i].data) :
                    KeysOf(imports[i].data[k].display_races) \subseteq SignificantTexts(f.sheet)

\* C22: a data record that deduplication renamed is the record built for
\* its row but for driver_id, its payload the row; and the record stored
\* under the original identity is still the record of the earlier row it
\* was stored for.
C22_RenameOnlyKey ==
    \A i \in ImportIds : Sent(i) =>
        /\ Len(imports[i].batch) = 1 + Len(imports[i].data)
        /\ \A k \in 1..Len(imports[i].data) :
            LET built == imports[i].data[k]
                stored == imports[i].batch[k + 1]
            IN  stored.driver_id # built.driver_id =>
                    /\ stored = [built EXCEPT !.driver_id = stored.driver_id]
                    /\ stored.display_races = JSONstringifyRow(imports[i].rows[k])
                    /\ \E j \in 1..(k - 1) :
                            /\ imports[i].batch[j + 1].driver_id = built.driver_id
                            /\ imports[i].batch[j + 1] =
                                 [imports[i].data[j] EXCEPT !.driver_id = built.driver_id]
                            /\ imports[i].batch[j + 1].display_races
                                    = JSONstringifyRow(imports[i].rows[j])

\* the second row of Bob is stored as Bob_1 with its own team, the first
\* as Bob with its own
C22_Witness ==
    \E i \in ImportIds :
        /\ Sent(i) /\ Len(imports[i].data) = 2
        /\ DriverIds(imports[i].batch) = <<METADATA, "Bob", "Bob_1">>
        /\ Member(JSONparseRow(imports[i].batch[2].display_races), "Team") = Str("X")
        /\ Member(JSONparseRow(imports[i].batch[3].display_races), "Team") = Str("Y")
        /\ Member(JSONparseRow(imports[i].batch[3].display_races), "Name") = Str("Bob")

\* C27: a modal in step 'success' shows no error message.
C27_NoErrorWithSuccess ==
    \A s \in Sessions : (open[s] /\ step[s] = "success") => errorMsg[s] = Null

\* the headers and the rows are those processFile takes from file f
FromFile(f, hs, rows) ==
    /\ f.valid /\ f.sheet # <<>>
    /\ hs = cleanHeaders(Head(f.sheet))
    /\ rows = sheet_to_json(f.sheet)

\* C29: headers and parsedRows of a modal that has left its initial state
\* are taken from one file, also while another processFile is awaited or
\* has ended; the schema record and the rows of every handleImport call
\* are from one file, and so are the schema row and the data rows the table
\* holds after a successful import.
C29_OneFile ==
    /\ \A s \in Sessions :
            (open[s] /\ (parsedRows[s] # <<>> \/ headers[s] # <<>> \/ step[s] # "upload")) =>
                \E f \in files[s] : FromFile(f, headers[s], parsedRows[s])
    /\ \A i \in ImportIds : imports[i].pc # "free" =>
            \E f \in files[imports[i].session] :
                /\ FromFile(f, cleanHeaders(Head(f.sheet)), imports[i].rows)
                /\ imports[i].meta =
                        metadataRecord(imports[i].roundId, cleanHeaders(Head(f.sheet)))
                /\ (imports[i].pc \in {"ok", "done"} /\ imports[i].sole) =>
                        /\ RoundRecords(store, imports[i].roundId) = StoredBatch(i)
                        /\ imports[i].batch[1] = imports[i].meta
                        /\ \A k \in 1..Len(imports[i].rows) :
                                imports[i].batch[k + 1].display_races
                                    = JSONstringifyRow(sheet_to_json(f.sheet)[k])

\* the rows of the second sheet are in the table, its headers in the schema
\* row, while the processFile of the first sheet is still awaited
C29_Witness ==
    \E i \in ImportIds :
        /\ imports[i].pc = "ok" /\ imports[i].session = 1
        /\ reading[1] = {Workbook(SheetA)}
        /\ imports[i].rows = sheet_to_json(SheetB)
        /\ \E rec \in RoundRecords(store, "R1") :
                rec.display_races = JSONstringifyColumns(Head(SheetB))

\* C26: when no fetchRankings call of a session is awaited and the one
\* answered last for the selected round was answered without error, the
\* drivers and the columns the dashboard holds were set from the rows of
\* the selected round.
C26_ViewFollowsSelection ==
    \A s \in Sessions :
        (/\ selectedRoundId[s] # NoRound
         /\ Fetches(fetching, s) = 0
         /\ lastOk[s][selectedRoundId[s]])
        => viewOf[s] = selectedRoundId[s]

\* C30: while the table is mounted, 1 <= currentPage <= max(1, totalPages).
C30_PageInRange ==
    \A s \in Sessions :
        selectedRoundId[s] # NoRound =>
            LET total == totalPages(drivers[s], searchQuery[s])
            IN  /\ 1 <= currentPage[s]
                /\ currentPage[s] <= IF total < 1 THEN 1 ELSE total

\* the ids of the rows of a table
IdsOf(st) == {row.id : row \in st}

\* C23: a row comes into the table only when the insert of a handleImport
\* call is answered without error; the answer of an update of
\* handleUpdateDriver leaves the ids, round_id and driver_id of all rows as
\* they were and changes at most one row, the one with the id of the
\* update; and no update that is awaited, and no driver that is edited, has
\* the id of a row whose driver_id is '__METADATA__'.
C23_CreatedOnlyByImport ==
    /\ [][/\ ~(IdsOf(store') \subseteq IdsOf(store)) =>
                \E i \in ImportIds :
                    /\ imports[i].pc = "insert" /\ imports'[i].pc = "ok"
                    /\ store' = StoreInsert(store, imports[i].batch, nextId)
           /\ \A u \in updates :
                UpdateReturn(u) =>
                    /\ IdsOf(store') = IdsOf(store)
                    /\ Cardinality(store') = Cardinality(store)
                    /\ Cardinality(store \ store') <= 1
                    /\ \A row \in store : \E now \in store' :
                            /\ now.id = row.id
                            /\ now.driver_id = row.driver_id
                            /\ now.round_id = row.round_id
                            /\ now # row =>
                                    /\ ToString(row.id) = u.id
                                    /\ row.driver_id # METADATA]_vars
    /\ [](\A row \in store :
            row.driver_id = METADATA =>
                /\ \A u \in updates : u.id # ToString(row.id)
                /\ \A s \in Sessions : editingDriver[s].id # ToString(row.id))

\* the row of Alice has the rank typed into the form, and the schema row
\* and the other rows of the round are those of the import
C23_Witness ==
    /\ updates = {}
    /\ \E row \in store :
            /\ row.driver_id = "Alice" /\ row.round_id = "R1" /\ row.rank = 7
            /\ Member(JSONparseRow(row.display_races), "rank") = Str("7")
            /\ Stored(PriorBatch("R1")[2], 2) \in (store \ {row}) \cup {[row EXCEPT !.rank = 1,
                    !.display_races = PriorBatch("R1")[2].display_races]}
    /\ Stored(PriorBatch("R1")[1], 1) \in store
    /\ Stored(PriorBatch("R1")[3], 3) \in store

\* the members of a JSON document, as a set
MembersOf(doc) == {doc[m] : m \in 1..Len(doc)}

\* C28: saving the form of a data row as the effect filled it sends an
\* update that leaves rank, points and the members of the payload of the
\* row as they are.
C28_UnchangedSaveNoOp ==
    [][\A s \in Sessions : \A rec \in store :
          (/\ SubmitEdit(s)
           /\ rec.driver_id # METADATA
           /\ editingDriver[s] = mappedDriver(rec)
           /\ formData[s] = initialData(editingDriver[s]))
          => \A u \in updates' \ updates :
                \E now \in StoreUpdate(store, u) :
                    /\ now.id = rec.id
                    /\ now.rank = rec.rank /\ now.points = rec.points
                    /\ MembersOf(now.display_races) = MembersOf(rec.display_races)]_vars

\* C24: the answer of the logs insert of addLog, and the answer of the
\* select of fetchLogs, with or without error, leave the rankings table,
\* every handleImport call and its outcome, the modal, the awaited
\* fetchRankings calls and the list the dashboard holds as they are.
C24_LogFailuresIsolated ==
    [][\A s \in Sessions :
          (AddLogReturn(s) \/ FetchLogsReturn(s)) =>
              UNCHANGED <<store, nextId, imports, modalVars, dashVars, viewVars,
                          batches>>]_vars

\* an import has succeeded and closed its modal, its log insert was answered
\* with an error, and the refresh it started was answered and shows its rows
C24_Witness ==
    \E i \in ImportIds :
        /\ imports[i].pc = "done" /\ imports[i].session = 1
        /\ addLogs[1] = 0 /\ logTable = 0
        /\ Fetches(fetching, 1) = 0 /\ lastOk[1][imports[i].roundId]
        /\ RoundRecords(store, imports[i].roundId) = StoredBatch(i)
        /\ Len(drivers[1]) = Len(imports[i].data) /\ Len(drivers[1]) > 0

\* the ids a batch of the history took
IdsOfBatch(b) == b[1]..(b[1] + b[2] - 1)

\* C25: on a table with the unique constraint on (round_id, driver_id) the
\* rows of a round are none, or the rows of one batch that an insert stored:
\* all its ids and no other, its first row the one schema row, no two rows
\* for one driver; and when the insert of a handleImport call is answered
\* without error the rows of its round are the records of its batch.
C25_OneBatchPerRound ==
    /\ [](\A r \in Rounds :
            LET rows == RoundRecords(store, r)
            IN  \/ rows = {}
                \/ \E b \in batches :
                        /\ IdsOf(rows) = IdsOfBatch(b)
                        /\ Cardinality(rows) = b[2]
                        /\ \A row \in rows : row.driver_id = METADATA <=> row.id = b[1]
                        /\ \A x, y \in rows : x.driver_id = y.driver_id => x = y)
    /\ [][\A i \in ImportIds :
            (imports[i].pc = "insert" /\ imports'[i].pc = "ok") =>
                RoundRecords(store', imports[i].roundId) =
                    {Stored(imports[i].batch[k], nextId + k - 1) :
                        k \in 1..Len(imports[i].batch)}]_vars

\* round R1 holds the batch of an import of session 2 that replaced the
\* earlier rows, one row of it changed in place by an edit of session 1
C25_Witness ==
    \E j \in ImportIds :
        /\ imports[j].pc = "ok" /\ imports[j].session = 2
        /\ IdsOf(RoundRecords(store, "R1")) =
                IdsOfBatch(<<imports[j].firstId, Len(imports[j].batch)>>)
        /\ Cardinality(RoundRecords(store, "R1") \ StoredBatch(j)) = 1
        /\ updates = {}
====
